---- MODULE Spec2Model ----
(***************************************************************************)
(* A model of the autorix authorization engine: the core evaluator         *)
(* (packages/core), the in-memory and Redis policy providers               *)
(* (packages/storage, packages/storage-redis) and the autorix package's    *)
(* PolicyEngine (packages/autorix).                                        *)
(*                                                                         *)
(* JavaScript values are tagged records, one field name per type so that   *)
(* two values of different types are never equal:                          *)
(*   undefined, null, string s, number n, boolean b, array a, object o.    *)
(* An object is the sequence of its own enumerable entries [k, v] in       *)
(* insertion order (the order Object.keys / Object.entries / for-in use).  *)
(***************************************************************************)
EXTENDS Integers, Sequences, FiniteSets, TLC

\* ------------------------------------------------------------------ bounds

\* Longest Statement array of a generated policy document.
MaxStatements == 2

\* Longest list of policies handed to evaluateAll.
MaxPolicies == 3

\* Longest list of statements handed to PolicyEngine.canAccess.
MaxSubjectPolicies == 2

\* The attachments pushed to a MemoryPolicyProvider.
MaxAttachments == 2

\* The distinct addPolicy and attachPolicy calls made on a RedisPolicyProvider.
MaxStoreCalls == 3

\* ------------------------------------------------------------- JS values

Undef == [t |-> "undefined"]

NullV == [t |-> "null"]

Str(x) == [t |-> "string", s |-> x]

Num(x) == [t |-> "number", n |-> x]

Bool(x) == [t |-> "boolean", b |-> x]

Arr(x) == [t |-> "array", a |-> x]

Obj(x) == [t |-> "object", o |-> x]

KV(key, val) == [k |-> key, v |-> val]

IsStr(x) == x.t = "string"

IsArr(x) == x.t = "array"

\* typeof v === 'object' && v !== null && !Array.isArray(v)
isPlainObject(x) == x.t = "object"

\* The `a ?? b` operator.
Nullish(x) == x.t \in {"undefined", "null"}

\* JavaScript truthiness, as `!x` and `if (x)` use it.
Truthy(x) ==
  CASE x.t = "undefined" -> FALSE
    [] x.t = "null" -> FALSE
    [] x.t = "string" -> x.s # ""
    [] x.t = "number" -> x.n # 0
    [] x.t = "boolean" -> x.b
    [] OTHER -> TRUE

\* Own property lookup obj[key]; undefined when the key is absent or obj is
\* not an object.
Prop(obj, key) ==
  IF obj.t # "object" THEN Undef
  ELSE LET hits == {i \in DOMAIN obj.o : obj.o[i].k = key}
       IN IF hits = {} THEN Undef
          ELSE obj.o[CHOOSE i \in hits : \A j \in hits : j <= i].v

\* ---------------------------------------------------------------- strings

\* str.substring(i - 1, j): the characters i..j (one-based, inclusive), cut to
\* the string.
Slice(str, i, j) ==
  LET lo == IF i < 1 THEN 1 ELSE i
      hi == IF j > Len(str) THEN Len(str) ELSE j
  IN IF lo > hi THEN "" ELSE SubSeq(str, lo, hi)

Char(str, i) == Slice(str, i, i)

Digits == <<"0", "1", "2", "3", "4", "5", "6", "7", "8", "9">>

RECURSIVE NatToString(_)
NatToString(n) ==
  IF n < 10 THEN Digits[n + 1]
  ELSE NatToString(n \div 10) \o Digits[(n % 10) + 1]

RECURSIVE JoinStrings(_, _)
JoinStrings(seq, sep) ==
  IF Len(seq) = 0 THEN ""
  ELSE IF Len(seq) = 1 THEN seq[1]
  ELSE seq[1] \o sep \o JoinStrings(Tail(seq), sep)

\* String(x) of JavaScript.
RECURSIVE JSString(_)
JSString(x) ==
  CASE x.t = "undefined" -> "undefined"
    [] x.t = "null" -> "null"
    [] x.t = "string" -> x.s
    [] x.t = "number" -> IF x.n < 0 THEN "-" \o NatToString(0 - x.n)
                         ELSE NatToString(x.n)
    [] x.t = "boolean" -> IF x.b THEN "true" ELSE "false"
    [] x.t = "array" ->
         JoinStrings([i \in DOMAIN x.a |->
                        IF Nullish(x.a[i]) THEN "" ELSE JSString(x.a[i])], ",")
    [] OTHER -> "[object Object]"

\* str.split(sep) for a one-character separator.
RECURSIVE SplitFrom(_, _, _, _)
SplitFrom(str, sep, i, cur) ==
  IF i > Len(str) THEN <<cur>>
  ELSE IF Char(str, i) = sep THEN <<cur>> \o SplitFrom(str, sep, i + 1, "")
  ELSE SplitFrom(str, sep, i + 1, cur \o Char(str, i))

Split(str, sep) == SplitFrom(str, sep, 1, "")

WhiteSpace == {" ", "\t", "\n", "\r"}

RECURSIVE TrimStart(_)
TrimStart(str) ==
  IF Len(str) > 0 /\ Char(str, 1) \in WhiteSpace
  THEN TrimStart(Slice(str, 2, Len(str)))
  ELSE str

RECURSIVE TrimEnd(_)
TrimEnd(str) ==
  IF Len(str) > 0 /\ Char(str, Len(str)) \in WhiteSpace
  THEN TrimEnd(Slice(str, 1, Len(str) - 1))
  ELSE str

\* String.prototype.trim
Trim(str) == TrimEnd(TrimStart(str))

\* ------------------------------------------- wildcard (utils/wildcard.ts)

\* Characters that `.` of a JavaScript regular expression does not match.
LineTerminators == {"\n", "\r"}

\* The pattern as the regular expression '^' + escaped + '$' reads it: the
\* characters .+^${}()|[]\ are escaped and stand for themselves, '*' has become
\* '.*', and '?' (not escaped) quantifies the atom before it. ok is FALSE
\* where new RegExp throws a SyntaxError (nothing to repeat).
RECURSIVE RegexAtoms(_, _, _)
RegexAtoms(pattern, i, acc) ==
  IF i > Len(pattern) THEN [ok |-> TRUE, atoms |-> acc]
  ELSE LET c == Char(pattern, i)
           n == Len(acc)
       IN CASE c = "*" ->
                 RegexAtoms(pattern, i + 1,
                   Append(acc, [any |-> TRUE, c |-> "", q |-> "star", lazy |-> FALSE]))
            [] c = "?" ->
                 IF n = 0 \/ acc[n].lazy THEN [ok |-> FALSE, atoms |-> acc]
                 ELSE IF acc[n].q = "one"
                 THEN RegexAtoms(pattern, i + 1, [acc EXCEPT ![n].q = "opt"])
                 ELSE RegexAtoms(pattern, i + 1, [acc EXCEPT ![n].lazy = TRUE])
            [] OTHER ->
                 RegexAtoms(pattern, i + 1,
                   Append(acc, [any |-> FALSE, c |-> c, q |-> "one", lazy |-> FALSE]))

AtomFits(atom, c) == IF atom.any THEN c \notin LineTerminators ELSE c = atom.c

\* re.test(input) for the anchored expression made of atoms[k..].
RECURSIVE RegexMatch(_, _, _, _)
RegexMatch(atoms, k, input, j) ==
  IF k > Len(atoms) THEN j > Len(input)
  ELSE LET a == atoms[k]
           fits == j <= Len(input) /\ AtomFits(a, Char(input, j))
       IN CASE a.q = "one" -> fits /\ RegexMatch(atoms, k + 1, input, j + 1)
            [] a.q = "opt" -> \/ RegexMatch(atoms, k + 1, input, j)
                              \/ fits /\ RegexMatch(atoms, k + 1, input, j + 1)
            [] OTHER -> \/ RegexMatch(atoms, k + 1, input, j)
                        \/ fits /\ RegexMatch(atoms, k, input, j + 1)

\* re.test(input) for the compiled expression: "throw" where new RegExp
\* threw a SyntaxError.
RegexTest(re, input) ==
  IF ~re.ok THEN "throw"
  ELSE IF RegexMatch(re.atoms, 1, input, 1) THEN "true" ELSE "false"

\* wildcardMatch: "true", "false" or "throw".
wildcardMatch(pattern, input) ==
  IF pattern = "*" THEN "true"
  ELSE RegexTest(RegexAtoms(pattern, 1, <<>>), input)

\* The list `some` iterates: the array itself, or the one value wrapped.
PatternList(patterns) == IF IsArr(patterns) THEN patterns.a ELSE <<patterns>>

\* wildcardMatch(p, value) for one element of the list. An element that is
\* not a string has no replace method: a TypeError.
PatternResult(p, value) == IF IsStr(p) THEN wildcardMatch(p.s, value) ELSE "throw"

\* Array.prototype.some over the results: it stops at the first element that
\* matches or throws.
Some(results) ==
  IF \A i \in DOMAIN results : results[i] = "false" THEN "false"
  ELSE results[CHOOSE i \in DOMAIN results :
                 results[i] # "false" /\ \A j \in 1..(i - 1) : results[j] = "false"]

MatchList(list, value) == Some([i \in DOMAIN list |-> PatternResult(list[i], value)])

\* matchOneOrMany: "true", "false" or "throw".
matchOneOrMany(value, patterns) == MatchList(PatternList(patterns), value)

\* matchers/action.ts and matchers/resource.ts: a pattern list matches if any
\* element matches, with the engine of wildcardMatch.
matchAction(action, pattern) == matchOneOrMany(action, pattern)

matchResource(resource, pattern) == matchOneOrMany(resource, pattern)

\* ------------------------------------------------- paths and variables

\* utils/path.ts getPath: dotted lookup, undefined on any missing
\* intermediate key.
RECURSIVE getPathKeys(_, _)
getPathKeys(obj, keys) ==
  IF Len(keys) = 0 THEN obj
  ELSE IF obj.t # "object" THEN Undef
  ELSE getPathKeys(Prop(obj, keys[1]), Tail(keys))

getPath(obj, path) == getPathKeys(obj, Split(path, "."))

\* { ...obj, [key]: val }
SetEntry(es, key, val) ==
  IF \A i \in DOMAIN es : es[i].k # key THEN Obj(Append(es, KV(key, val)))
  ELSE Obj([i \in DOMAIN es |-> IF es[i].k = key THEN KV(key, val) ELSE es[i]])

SetProp(obj, key, val) ==
  SetEntry(IF obj.t = "object" THEN obj.o ELSE <<>>, key, val)

\* The object both getLeft and resolveValue look paths up in.
\* a ?? b
Coalesce(a, b) == IF Nullish(a) THEN b ELSE a

ComposedView(ctx) ==
  Obj(<<KV("principal", Prop(ctx, "principal")),
        KV("resource", Prop(ctx, "resource")),
        KV("request", Prop(ctx, "request")),
        KV("scope", Prop(ctx, "scope")),
        KV("context",
           SetProp(Prop(ctx, "context"), "scope",
                   Coalesce(Prop(Prop(ctx, "context"), "scope"), Prop(ctx, "scope"))))>>)

getLeft(ctx, key) == getPath(ComposedView(ctx), key)

\* VAR_RE = /^\$\{(.+)}$/ on the trimmed value: the captured group, or "" when
\* the expression does not match (`.` matches no line terminator).
VarPath(trimmed) ==
  IF /\ Len(trimmed) >= 4
     /\ Slice(trimmed, 1, 2) = "${"
     /\ Char(trimmed, Len(trimmed)) = "}"
     /\ \A i \in 3..(Len(trimmed) - 1) : Char(trimmed, i) \notin LineTerminators
  THEN Slice(trimmed, 3, Len(trimmed) - 1) ELSE ""

ResolveMatch(value, m, ctx) ==
  IF m = "" THEN value ELSE getPath(ComposedView(ctx), Trim(m))

resolveValue(value, ctx) ==
  IF ~IsStr(value) THEN value
  ELSE ResolveMatch(value, VarPath(Trim(value.s)), ctx)

\* -------------------------------------- conditions (conditions/evaluate.ts)

\* utils/path.ts toNumber: a number, or a string that parses as one;
\* undefined otherwise.
AllDigits(body) ==
  Len(body) > 0 /\ \A i \in 1..Len(body) : \E d \in DOMAIN Digits : Digits[d] = Char(body, i)

IsNumeral(str) ==
  AllDigits(IF Len(str) > 0 /\ Char(str, 1) = "-" THEN Slice(str, 2, Len(str)) ELSE str)

RECURSIVE ParseNat(_)
ParseNat(str) ==
  IF Len(str) = 0 THEN 0
  ELSE 10 * ParseNat(Slice(str, 1, Len(str) - 1))
       + ((CHOOSE d \in DOMAIN Digits : Digits[d] = Char(str, Len(str))) - 1)

ParseNumber(str) ==
  IF ~IsNumeral(str) THEN Undef
  ELSE IF Char(str, 1) = "-" THEN Num(0 - ParseNat(Slice(str, 2, Len(str))))
  ELSE Num(ParseNat(str))

toNumber(x) ==
  CASE x.t = "number" -> x
    [] x.t = "string" -> ParseNumber(Trim(x.s))
    [] OTHER -> Undef

\* utils/path.ts toBoolean: the truthiness of a value that is present;
\* undefined for a missing one.
toBoolean(x) == IF Nullish(x) THEN Undef ELSE Bool(Truthy(x))

\* Object.entries(obj) of allEntries: [] for a falsy value.
allEntries(obj) ==
  CASE ~Truthy(obj) -> <<>>
    [] obj.t = "object" -> obj.o
    [] obj.t = "array" -> [i \in DOMAIN obj.a |-> KV(NatToString(i - 1), obj.a[i])]
    [] obj.t = "string" ->
         [i \in 1..Len(obj.s) |-> KV(NatToString(i - 1), Str(Char(obj.s, i)))]
    [] OTHER -> <<>>

\* One entry of each operator: "true" (the loop goes on), "false" (the
\* operator returns false) or "throw".
StringEqualsTest(left, expected) ==
  IF IsArr(expected)
  THEN IF \E i \in DOMAIN expected.a : JSString(left) = JSString(expected.a[i])
       THEN "true" ELSE "false"
  ELSE IF JSString(left) # JSString(expected) THEN "false" ELSE "true"

StringEqualsEntry(ctx, e) == StringEqualsTest(getLeft(ctx, e.k), resolveValue(e.v, ctx))

StringLikeTest(left, expected) ==
  IF left.t \notin {"string", "number", "boolean"} THEN "false"
  ELSE IF IsStr(expected) \/ IsArr(expected)
  THEN matchOneOrMany(JSString(left), expected)
  ELSE "false"

StringLikeEntry(ctx, e) == StringLikeTest(getLeft(ctx, e.k), resolveValue(e.v, ctx))

NumericEqualsTest(leftN, expN) ==
  IF leftN = Undef \/ expN = Undef THEN "false"
  ELSE IF leftN # expN THEN "false" ELSE "true"

NumericEqualsEntry(ctx, e) ==
  NumericEqualsTest(toNumber(getLeft(ctx, e.k)), toNumber(resolveValue(e.v, ctx)))

BoolTest(leftB, expB) ==
  IF leftB = Undef \/ expB = Undef THEN "false"
  ELSE IF leftB # expB THEN "false" ELSE "true"

BoolEntry(ctx, e) ==
  BoolTest(toBoolean(getLeft(ctx, e.k)), toBoolean(resolveValue(e.v, ctx)))

\* The for-of loop of an operator over its entries: the first entry that is
\* not "true" decides.
FirstFailure(results) ==
  IF \A i \in DOMAIN results : results[i] = "true" THEN "true"
  ELSE results[CHOOSE i \in DOMAIN results :
                 results[i] # "true" /\ \A j \in 1..(i - 1) : results[j] = "true"]

StringEqualsEntries(ctx, es) ==
  FirstFailure([i \in DOMAIN es |-> StringEqualsEntry(ctx, es[i])])

evalStringEquals(ctx, kv) == StringEqualsEntries(ctx, allEntries(kv))

StringLikeEntries(ctx, es) ==
  FirstFailure([i \in DOMAIN es |-> StringLikeEntry(ctx, es[i])])

evalStringLike(ctx, kv) == StringLikeEntries(ctx, allEntries(kv))

NumericEqualsEntries(ctx, es) ==
  FirstFailure([i \in DOMAIN es |-> NumericEqualsEntry(ctx, es[i])])

evalNumericEquals(ctx, kv) == NumericEqualsEntries(ctx, allEntries(kv))

BoolEntries(ctx, es) ==
  FirstFailure([i \in DOMAIN es |-> BoolEntry(ctx, es[i])])

evalBool(ctx, kv) == BoolEntries(ctx, allEntries(kv))

\* evaluateConditions passing as soon as one of the four operators passes.
evaluateConditionsAny(condition, ctx) ==
  IF ~Truthy(condition) THEN "true"
  ELSE IF "true" \in {evalStringEquals(ctx, Prop(condition, "StringEquals")),
                      evalStringLike(ctx, Prop(condition, "StringLike")),
                      evalNumericEquals(ctx, Prop(condition, "NumericEquals")),
                      evalBool(ctx, Prop(condition, "Bool"))}
  THEN "true" ELSE "false"

\* "true", "false" or "throw". Operator keys other than the four read here
\* are never looked at.
evaluateConditions(condition, ctx) ==
  IF ~Truthy(condition) THEN "true"
  ELSE FirstFailure(<<evalStringEquals(ctx, Prop(condition, "StringEquals")),
                      evalStringLike(ctx, Prop(condition, "StringLike")),
                      evalNumericEquals(ctx, Prop(condition, "NumericEquals")),
                      evalBool(ctx, Prop(condition, "Bool"))>>)

\* --------------------------------------------- validation (validatePolicy.ts)

OPERATORS == {"StringEquals", "StringLike", "NumericEquals", "Bool"}

isStringArray(x) ==
  /\ IsArr(x)
  /\ Len(x.a) > 0
  /\ \A i \in DOMAIN x.a : IsStr(x.a[i]) /\ Len(x.a[i].s) > 0

isStringOrStringArray(x) == IsStr(x) \/ isStringArray(x)

RECURSIVE Flatten(_)
Flatten(seqs) == IF Len(seqs) = 0 THEN <<>> ELSE seqs[1] \o Flatten(Tail(seqs))

\* The errors one operator key of a condition block adds.
ConditionKeyErrors(cond, key, path) ==
  LET opVal == Prop(cond, key)
  IN IF key \notin OPERATORS THEN <<path \o " has invalid operator \"" \o key \o "\"">>
     ELSE IF opVal = Undef THEN <<>>
     ELSE IF ~isPlainObject(opVal)
     THEN <<path \o "." \o key \o " must be an object (key-value map)">>
     ELSE Flatten([i \in DOMAIN opVal.o |->
            IF Len(opVal.o[i].k) = 0
            THEN <<path \o "." \o key \o " has an invalid condition key">>
            ELSE <<>>])

validateConditionBlock(cond, path) ==
  IF cond = Undef THEN <<>>
  ELSE IF ~isPlainObject(cond) THEN <<path \o " must be an object">>
  ELSE Flatten([i \in DOMAIN cond.o |-> ConditionKeyErrors(cond, cond.o[i].k, path)])

validateStatement(stmt, index) ==
  LET p == "Statement[" \o NatToString(index) \o "]"
      effect == Prop(stmt, "Effect")
  IN IF ~isPlainObject(stmt) THEN <<p \o " must be an object">>
     ELSE (IF effect # Str("Allow") /\ effect # Str("Deny")
           THEN <<p \o ".Effect must be \"Allow\" or \"Deny\"">> ELSE <<>>)
       \o (IF ~isStringOrStringArray(Prop(stmt, "Action"))
           THEN <<p \o ".Action must be a non-empty string or string[]">> ELSE <<>>)
       \o (IF ~isStringOrStringArray(Prop(stmt, "Resource"))
           THEN <<p \o ".Resource must be a non-empty string or string[]">> ELSE <<>>)
       \o validateConditionBlock(Prop(stmt, "Condition"), p \o ".Condition")

\* The errors array of validatePolicyDocument; valid iff it is empty.
validatePolicyDocument(policy) ==
  LET stmt == Prop(policy, "Statement")
  IN IF ~isPlainObject(policy) THEN <<"Policy must be an object">>
     ELSE IF ~IsArr(stmt) THEN <<"Policy.Statement must be an array">>
     ELSE Flatten([i \in DOMAIN stmt.a |-> validateStatement(stmt.a[i], i - 1)])

\* ------------------------------------------------------ evaluate (evaluate.ts)

Decision(allowed, reason, matched) ==
  [kind |-> "decision", allowed |-> allowed, reason |-> reason,
   matchedStatements |-> matched]

Thrown(error, errors) == [kind |-> "throw", error |-> error, errors |-> errors]

\* statementId counting positions from one.
statementIdOneBased(stmt, index) ==
  LET sid == Prop(stmt, "Sid")
  IN IF Nullish(sid) THEN "stmt#" \o NatToString(index + 1) ELSE sid.s

\* stmt.Sid ?? `stmt#${index}`; a Sid is a string (Statement.Sid?: string).
statementId(stmt, index) ==
  LET sid == Prop(stmt, "Sid")
  IN IF Nullish(sid) THEN "stmt#" \o NatToString(index) ELSE sid.s

\* The three `continue` tests of the loop body, each "true", "false" or
\* "throw", taken in order: "match", "skip" or "throw".
Continues(ma, mr, ec) ==
  CASE ma # "true" -> IF ma = "throw" THEN "throw" ELSE "skip"
    [] ma = "true" /\ mr # "true" -> IF mr = "throw" THEN "throw" ELSE "skip"
    [] ma = "true" /\ mr = "true" /\ ec # "true" ->
         IF ec = "throw" THEN "throw" ELSE "skip"
    [] OTHER -> "match"

\* Reading a property of null or undefined throws a TypeError.
StatementOutcome(stmt, action, resource, ctx) ==
  IF Nullish(stmt) THEN "throw"
  ELSE Continues(matchAction(action, Prop(stmt, "Action")),
                 matchResource(resource, Prop(stmt, "Resource")),
                 evaluateConditions(Prop(stmt, "Condition"), ctx))

\* What `policy.Statement ?? []` iterates with an index below its length.
StatementList(policy) ==
  LET st == Prop(policy, "Statement")
  IN CASE st.t = "array" -> st.a
       [] st.t = "string" -> [i \in 1..Len(st.s) |-> Str(Char(st.s, i))]
       [] OTHER -> <<>>

\* EvaluateReturn with the deny test passed only when the matching Deny
\* statements are at least as many as the matching Allow statements.
EvaluateReturnMajority(matchedAllow, matchedDeny) ==
  IF Len(matchedDeny) > 0 /\ Len(matchedDeny) >= Len(matchedAllow)
  THEN Decision(FALSE, "EXPLICIT_DENY", matchedDeny)
  ELSE IF Len(matchedAllow) > 0 THEN Decision(TRUE, "EXPLICIT_ALLOW", matchedAllow)
  ELSE Decision(FALSE, "DEFAULT_DENY", <<>>)

\* EvaluateReturn with the allow test ahead of the deny test.
EvaluateReturnAllowFirst(matchedAllow, matchedDeny) ==
  IF Len(matchedAllow) > 0 THEN Decision(TRUE, "EXPLICIT_ALLOW", matchedAllow)
  ELSE IF Len(matchedDeny) > 0 THEN Decision(FALSE, "EXPLICIT_DENY", matchedDeny)
  ELSE Decision(FALSE, "DEFAULT_DENY", <<>>)

\* The three returns after the loop.
EvaluateReturn(matchedAllow, matchedDeny) ==
  IF Len(matchedDeny) > 0 THEN Decision(FALSE, "EXPLICIT_DENY", matchedDeny)
  ELSE IF Len(matchedAllow) > 0 THEN Decision(TRUE, "EXPLICIT_ALLOW", matchedAllow)
  ELSE Decision(FALSE, "DEFAULT_DENY", <<>>)

\* PushIf without the test of the Effect: every matched id goes to both lists.
PushAlways(matched, stmt, effect, id) == Append(matched, id)

\* The two pushes of the loop body for a statement that matched.
PushIf(matched, stmt, effect, id) ==
  IF Prop(stmt, "Effect") = Str(effect) THEN Append(matched, id) ELSE matched

\* EvaluateLoop returning at the first statement that matches (first match
\* wins) instead of collecting all of them.
RECURSIVE EvaluateLoopFirstMatch(_, _, _, _, _)
EvaluateLoopFirstMatch(statements, outcomes, i, matchedAllow, matchedDeny) ==
  IF i > Len(statements) \/ Len(matchedAllow) + Len(matchedDeny) > 0
  THEN EvaluateReturn(matchedAllow, matchedDeny)
  ELSE CASE outcomes[i] = "throw" -> Thrown("TypeError", <<>>)
         [] outcomes[i] = "skip" ->
              EvaluateLoopFirstMatch(statements, outcomes, i + 1, matchedAllow, matchedDeny)
         [] OTHER ->
              EvaluateLoopFirstMatch(statements, outcomes, i + 1,
                PushIf(matchedAllow, statements[i], "Allow", statementId(statements[i], i - 1)),
                PushIf(matchedDeny, statements[i], "Deny", statementId(statements[i], i - 1)))

\* outcomes[i] is the StatementOutcome of statements[i]. The for loop from
\* position i (one-based here, zero-based in the ids), then the returns.
RECURSIVE EvaluateLoop(_, _, _, _, _)
EvaluateLoop(statements, outcomes, i, matchedAllow, matchedDeny) ==
  IF i > Len(statements) THEN EvaluateReturn(matchedAllow, matchedDeny)
  ELSE CASE outcomes[i] = "throw" -> Thrown("TypeError", <<>>)
         [] outcomes[i] = "skip" ->
              EvaluateLoop(statements, outcomes, i + 1, matchedAllow, matchedDeny)
         [] OTHER ->
              EvaluateLoop(statements, outcomes, i + 1,
                PushIf(matchedAllow, statements[i], "Allow", statementId(statements[i], i - 1)),
                PushIf(matchedDeny, statements[i], "Deny", statementId(statements[i], i - 1)))

EvaluateStatements(statements, action, resource, ctx) ==
  EvaluateLoop(statements,
               [i \in DOMAIN statements |-> StatementOutcome(statements[i], action, resource, ctx)],
               1, <<>>, <<>>)

\* evaluate once the errors of validatePolicyDocument are known.
EvaluateValidated(input, errors) ==
  IF input.validate # Bool(FALSE) /\ Len(errors) > 0
  THEN Thrown("AutorixPolicyValidationError", errors)
  ELSE EvaluateStatements(StatementList(input.policy), input.action, input.resource,
                          input.ctx)

\* evaluate without its `if (!policy)` return.
evaluateUnguarded(input) == EvaluateValidated(input, validatePolicyDocument(input.policy))

\* input = [action, resource, policy, ctx, validate]; validate is the JS
\* value of input.validate (undefined when the caller leaves it out).
evaluate(input) ==
  IF ~Truthy(input.policy)
  THEN Decision(FALSE, "DEFAULT_DENY", <<>>)
  ELSE EvaluateValidated(input, validatePolicyDocument(input.policy))

\* ------------------------------------------------ evaluateAll (evaluateAll.ts)

NoResult == [kind |-> "none"]

\* The locals of evaluateAll before its loop; returned is what the loop has
\* returned or thrown so far.
AllStart == [sawAllow |-> FALSE, matchedStatements |-> <<>>, returned |-> NoResult]

\* AllAfterEvaluate returning on a deny only while no document has allowed.
AllAfterEvaluateAllowWins(acc, d) ==
  CASE d.kind = "throw" -> [acc EXCEPT !.returned = d]
    [] d.kind # "throw" /\ d.reason = "EXPLICIT_DENY" /\ ~acc.sawAllow ->
         [acc EXCEPT !.matchedStatements = @ \o d.matchedStatements,
                     !.returned = Decision(FALSE, "EXPLICIT_DENY",
                                           acc.matchedStatements \o d.matchedStatements)]
    [] OTHER ->
         [acc EXCEPT !.matchedStatements = @ \o d.matchedStatements,
                     !.sawAllow = @ \/ d.reason = "EXPLICIT_ALLOW"]

\* AllAfterEvaluate returning the denying document's own decision.
AllAfterEvaluateOwnDecision(acc, d) ==
  CASE d.kind = "throw" -> [acc EXCEPT !.returned = d]
    [] d.kind # "throw" /\ d.reason = "EXPLICIT_DENY" ->
         [acc EXCEPT !.matchedStatements = @ \o d.matchedStatements,
                     !.returned = d]
    [] OTHER ->
         [acc EXCEPT !.matchedStatements = @ \o d.matchedStatements,
                     !.sawAllow = @ \/ d.reason = "EXPLICIT_ALLOW"]

\* The loop body after `const d = evaluate(...)`.
AllAfterEvaluate(acc, d) ==
  CASE d.kind = "throw" -> [acc EXCEPT !.returned = d]
    [] d.kind # "throw" /\ d.reason = "EXPLICIT_DENY" ->
         [acc EXCEPT !.matchedStatements = @ \o d.matchedStatements,
                     !.returned = Decision(FALSE, "EXPLICIT_DENY",
                                           acc.matchedStatements \o d.matchedStatements)]
    [] OTHER ->
         [acc EXCEPT !.matchedStatements = @ \o d.matchedStatements,
                     !.sawAllow = @ \/ d.reason = "EXPLICIT_ALLOW"]

\* AllBody returning DEFAULT_DENY at a null or undefined entry instead of
\* going on to the next one.
AllBodyNullStops(acc, policy, action, resource, ctx) ==
  IF ~Truthy(policy)
  THEN [acc EXCEPT !.returned = Decision(FALSE, "DEFAULT_DENY", acc.matchedStatements)]
  ELSE AllAfterEvaluate(acc, evaluate([action |-> action, resource |-> resource,
                                       policy |-> policy, ctx |-> ctx,
                                       validate |-> Undef]))

\* One iteration of `for (const policy of policies)`.
AllBody(acc, policy, action, resource, ctx) ==
  IF ~Truthy(policy) THEN acc
  ELSE AllAfterEvaluate(acc, evaluate([action |-> action, resource |-> resource,
                                       policy |-> policy, ctx |-> ctx,
                                       validate |-> Undef]))

\* AllEnd with the reason of the first return on both returns.
AllEndOneReason(acc) == Decision(acc.sawAllow, "EXPLICIT_ALLOW", acc.matchedStatements)

\* The two returns after the loop.
AllEnd(acc) ==
  IF acc.sawAllow THEN Decision(TRUE, "EXPLICIT_ALLOW", acc.matchedStatements)
  ELSE Decision(FALSE, "DEFAULT_DENY", acc.matchedStatements)

RECURSIVE AllFrom(_, _, _, _, _, _)
AllFrom(policies, i, acc, action, resource, ctx) ==
  IF acc.returned # NoResult THEN acc.returned
  ELSE IF i > Len(policies) THEN AllEnd(acc)
  ELSE AllFrom(policies, i + 1, AllBody(acc, policies[i], action, resource, ctx),
               action, resource, ctx)

\* input = [action, resource, policies, ctx]
evaluateAll(input) ==
  AllFrom(input.policies, 1, AllStart, input.action, input.resource, input.ctx)

\* ------------------------------------------ assertAllowed (assertAllowed.ts)

\* new AutorixForbiddenError(message, decision)
AutorixForbiddenError(message, decision) ==
  [kind |-> "throw", error |-> "AutorixForbiddenError", message |-> message,
   decision |-> decision]

\* The parameter default: "Forbidden by policy" for an undefined message.
MessageOrDefault(message) ==
  IF message = Undef THEN "Forbidden by policy" ELSE JSString(message)

\* assertAllowed throwing the message without the reason.
assertAllowedBareMessage(decision, message) ==
  IF ~decision.allowed
  THEN AutorixForbiddenError(MessageOrDefault(message), decision)
  ELSE [kind |-> "return"]

\* assertAllowed(decision, message): [kind |-> "return"] or the error thrown.
assertAllowed(decision, message) ==
  IF ~decision.allowed
  THEN AutorixForbiddenError(
         MessageOrDefault(message) \o " (" \o decision.reason \o ")", decision)
  ELSE [kind |-> "return"]

\* --------------------------------- PolicyEngine (packages/autorix/src/core)

StartsWith(str, prefix) ==
  Len(prefix) <= Len(str) /\ Slice(str, 1, Len(prefix)) = prefix

EndsWith(str, suffix) ==
  Len(suffix) <= Len(str) /\ Slice(str, Len(str) - Len(suffix) + 1, Len(str)) = suffix

\* resourcesMatch, and the test actionsMatch applies to each policy action.
resourcesMatch(policyResource, requestedResource) ==
  \/ policyResource = "*"
  \/ policyResource = requestedResource
  \/ /\ EndsWith(policyResource, "*")
     /\ StartsWith(requestedResource, Slice(policyResource, 1, Len(policyResource) - 1))
  \/ /\ StartsWith(policyResource, "*")
     /\ EndsWith(requestedResource, Slice(policyResource, 2, Len(policyResource)))

actionsMatch(policyActions, requestedAction) ==
  \E i \in DOMAIN policyActions : resourcesMatch(policyActions[i], requestedAction)

\* path.split(".").reduce((acc, key) => acc?.[key], obj)
RECURSIVE resolvePathKeys(_, _)
resolvePathKeys(obj, keys) ==
  IF Len(keys) = 0 THEN obj
  ELSE resolvePathKeys(Prop(obj, keys[1]), Tail(keys))

resolvePath(obj, path) == resolvePathKeys(obj, Split(path, "."))

\* Position of the first "}" at or after i, 0 when there is none.
RECURSIVE IndexOfBrace(_, _)
IndexOfBrace(str, i) ==
  IF i > Len(str) THEN 0
  ELSE IF Char(str, i) = "}" THEN i
  ELSE IndexOfBrace(str, i + 1)

\* value.replace(/\${([^}]+)}/g, (_, varName) => this.resolve(varName, context)),
\* from position i on. registry maps a variable name to the context path its
\* resolver reads. ok is FALSE where resolve throws (variable not registered).
TemplateJoin(piece, rest) == [ok |-> rest.ok, s |-> piece \o rest.s]

RECURSIVE resolveTemplateFrom(_, _, _, _)
RECURSIVE TemplateAt(_, _, _, _, _)
TemplateAt(value, i, j, registry, context) ==
  IF Slice(value, i, i + 1) = "${" /\ j >= i + 3
  THEN IF Slice(value, i + 2, j - 1) \notin DOMAIN registry THEN [ok |-> FALSE, s |-> ""]
       ELSE TemplateJoin(
              JSString(resolvePath(context, registry[Slice(value, i + 2, j - 1)])),
              resolveTemplateFrom(value, j + 1, registry, context))
  ELSE TemplateJoin(Char(value, i), resolveTemplateFrom(value, i + 1, registry, context))

\* j is the position of the first "}" a variable name starting at i + 2
\* could end at.
resolveTemplateFrom(value, i, registry, context) ==
  IF i > Len(value) THEN [ok |-> TRUE, s |-> ""]
  ELSE TemplateAt(value, i, IndexOfBrace(value, i + 2), registry, context)

resolveTemplateString(value, registry, context) ==
  resolveTemplateFrom(value, 1, registry, context)

\* JSON.parse(JSON.stringify(x, replacer)) with the replacer that resolves
\* every string: JsonThrows where a variable is not registered, JsonResolved
\* otherwise. An undefined entry of an object is dropped, an undefined
\* element of an array becomes null.
RECURSIVE JsonThrows(_, _, _)
JsonThrows(x, registry, context) ==
  CASE x.t = "string" -> ~resolveTemplateString(x.s, registry, context).ok
    [] x.t = "array" -> \E i \in DOMAIN x.a : JsonThrows(x.a[i], registry, context)
    [] x.t = "object" -> \E i \in DOMAIN x.o : JsonThrows(x.o[i].v, registry, context)
    [] OTHER -> FALSE

RECURSIVE JsonResolved(_, _, _)
JsonResolved(x, registry, context) ==
  CASE x.t = "string" -> Str(resolveTemplateString(x.s, registry, context).s)
    [] x.t = "array" ->
         Arr([i \in DOMAIN x.a |->
                IF x.a[i] = Undef THEN NullV ELSE JsonResolved(x.a[i], registry, context)])
    [] x.t = "object" ->
         LET kept == SelectSeq(x.o, LAMBDA e : e.v # Undef)
         IN Obj([i \in DOMAIN kept |->
                   KV(kept[i].k, JsonResolved(kept[i].v, registry, context))])
    [] OTHER -> x

\* resolvePolicyConditions: undefined for a missing or empty condition;
\* [ok |-> FALSE] where it throws.
resolvePolicyConditions(condition, registry, context) ==
  IF ~Truthy(condition) \/ (condition.t = "object" /\ Len(condition.o) = 0)
  THEN [ok |-> TRUE, v |-> Undef]
  ELSE IF JsonThrows(condition, registry, context) THEN [ok |-> FALSE, v |-> Undef]
  ELSE [ok |-> TRUE, v |-> JsonResolved(condition, registry, context)]

\* The keys of allEvaluators: every member of the ConditionOperator enum.
RegisteredOperators ==
  {"StringEquals", "StringNotEquals", "StringLike", "StringContains",
   "StringStartsWith", "StringEndsWith", "StringIncludesAny", "StringIncludesAll",
   "StringRegex", "Bool", "NumericEquals", "NumericNotEquals", "NumericLessThan",
   "NumericLessThanEquals", "NumericGreaterThan", "NumericGreaterThanEquals",
   "ArrayContains", "ArrayNotContains", "ArrayContainsAny", "ArrayEquals",
   "ArrayLengthEquals", "ArrayLengthLessThan", "ArrayLengthGreaterThan",
   "IpMatch", "NotIpMatch", "IpEquals", "DateEquals", "DateNotEquals",
   "DateLessThan", "DateLessThanEquals", "DateGreaterThan",
   "DateGreaterThanEquals", "DateInRange", "IsNull"}

\* ---- numbers of JavaScript, as the evaluators of the registry use them

\* The number NaN; every other number is Num(n).
NaN == [t |-> "number", nan |-> TRUE]

isNaN(x) == x = NaN

\* The StringToNumber conversion, for strings of whitespace, a sign and
\* decimal digits: the empty string is 0, a string that is no numeral NaN.
StringToNumber(str) ==
  LET body == Trim(str)
      signed == Len(body) > 0 /\ Char(body, 1) \in {"-", "+"}
      digits == IF signed THEN Slice(body, 2, Len(body)) ELSE body
  IN IF body = "" THEN Num(0)
     ELSE IF ~AllDigits(digits) THEN NaN
     ELSE IF Char(body, 1) = "-" THEN Num(0 - ParseNat(digits))
     ELSE Num(ParseNat(digits))

\* Number(x): undefined is NaN, null is 0, a boolean 1 or 0, a string what
\* StringToNumber gives, an array or an object the number of its String().
JSNumber(x) ==
  CASE x.t = "undefined" -> NaN
    [] x.t = "null" -> Num(0)
    [] x.t = "boolean" -> Num(IF x.b THEN 1 ELSE 0)
    [] x.t = "number" -> x
    [] OTHER -> StringToNumber(JSString(x))

\* parseInt(str, 10): the longest prefix of an optional sign and digits,
\* after leading whitespace; NaN when there is no digit.
RECURSIVE DigitPrefix(_)
DigitPrefix(str) ==
  IF Len(str) > 0 /\ AllDigits(Char(str, 1))
  THEN Char(str, 1) \o DigitPrefix(Slice(str, 2, Len(str)))
  ELSE ""

parseInt(str) ==
  LET body == TrimStart(str)
      signed == Len(body) > 0 /\ Char(body, 1) \in {"-", "+"}
      digits == DigitPrefix(IF signed THEN Slice(body, 2, Len(body)) ELSE body)
  IN IF digits = "" THEN NaN
     ELSE IF Char(body, 1) = "-" THEN Num(0 - ParseNat(digits))
     ELSE Num(ParseNat(digits))

\* ToInt32 of a number the 32-bit operators are applied to: NaN is 0. The
\* integers of the model are 32 bits wide themselves.
ToInt32(x) == IF isNaN(x) THEN 0 ELSE x.n

\* a << 8 on a 32-bit integer: the low 24 bits move up, the sign bit is
\* bit 23 of a.
ShiftLeft8(a) ==
  LET low == a % 16777216
  IN IF low >= 8388608 THEN (low - 16777216) * 256 ELSE low * 256

\* a & b on 32-bit two's complement integers.
RECURSIVE BitAnd(_, _)
BitAnd(a, b) ==
  IF a = 0 \/ b = 0 THEN 0
  ELSE IF a = 0 - 1 THEN b
  ELSE IF b = 0 - 1 THEN a
  ELSE 2 * BitAnd((a - (a % 2)) \div 2, (b - (b % 2)) \div 2) + ((a % 2) * (b % 2))

\* x === y on numbers and null.
StrictEquals(x, y) == ~isNaN(x) /\ ~isNaN(y) /\ x = y

\* ------------------------------------ ipEvaluators (evaluators/ip)

\* parts.reduce((acc, octet) => (acc << 8) + Number(octet), 0)
RECURSIVE ReduceOctets(_, _)
ReduceOctets(acc, parts) ==
  IF Len(parts) = 0 THEN acc
  ELSE LET octet == StringToNumber(Head(parts))
           next == IF isNaN(octet) THEN NaN
                   ELSE Num(ShiftLeft8(ToInt32(acc)) + octet.n)
       IN ReduceOctets(next, Tail(parts))

\* ipToInt: null unless the string has four parts.
ipToInt(ip) ==
  LET parts == Split(ip, ".")
  IN IF Len(parts) # 4 THEN NullV ELSE ReduceOctets(Num(0), parts)

\* calculateMask: (-1 << (32 - bits)) >>> 0, as the 32-bit integer that
\* the & operator makes of it.
RECURSIVE MinusOneShifted(_)
MinusOneShifted(n) == IF n = 0 THEN 0 - 1 ELSE 2 * MinusOneShifted(n - 1)

calculateMask(bits) == IF bits = 0 THEN 0 ELSE MinusOneShifted(32 - bits)

\* The body the IpMatch and NotIpMatch evaluators share for an expected
\* value that is split at "/": same is TRUE for IpMatch (===), FALSE for
\* NotIpMatch (!==).
CidrMatch(expected, actual, same) ==
  LET parts == Split(expected, "/")
      rangeIpStr == parts[1]
      subnetBitsStr == IF Len(parts) > 1 THEN parts[2] ELSE ""
      subnetBits == parseInt(subnetBitsStr)
      actualIpInt == ipToInt(actual)
      rangeIpInt == ipToInt(rangeIpStr)
  IN IF rangeIpStr = "" \/ subnetBitsStr = "" THEN FALSE
     ELSE IF isNaN(subnetBits) \/ subnetBits.n < 0 \/ subnetBits.n > 32 THEN FALSE
     ELSE IF actualIpInt = NullV \/ rangeIpInt = NullV THEN FALSE
     ELSE LET mask == calculateMask(subnetBits.n)
              masked == BitAnd(ToInt32(actualIpInt), mask) = BitAnd(ToInt32(rangeIpInt), mask)
          IN IF same THEN masked ELSE ~masked

IpMatch(expected, actual) ==
  IF ~IsStr(expected) \/ ~IsStr(actual) THEN FALSE
  ELSE IF Len(Split(expected.s, "/")) = 1
  THEN StrictEquals(ipToInt(expected.s), ipToInt(actual.s))
  ELSE CidrMatch(expected.s, actual.s, TRUE)

NotIpMatch(expected, actual) ==
  IF ~IsStr(expected) \/ ~IsStr(actual) THEN FALSE
  ELSE CidrMatch(expected.s, actual.s, FALSE)

IpEquals(expected, actual) ==
  IF ~IsStr(expected) \/ ~IsStr(actual) THEN FALSE
  ELSE StrictEquals(ipToInt(expected.s), ipToInt(actual.s))

\* ------------------------------- numericEvaluators (evaluators/numeric)

\* The body the six numeric evaluators share: false for a NaN operand,
\* the operator's comparison of the two numbers otherwise.
NumericCompare(operator, expected, actual) ==
  LET numExpected == JSNumber(expected)
      numActual == JSNumber(actual)
  IN IF isNaN(numExpected) \/ isNaN(numActual) THEN FALSE
     ELSE CASE operator = "NumericLessThanEquals" -> numActual.n <= numExpected.n
            [] operator = "NumericEquals" -> numActual.n = numExpected.n
            [] operator = "NumericNotEquals" -> numActual.n # numExpected.n
            [] operator = "NumericLessThan" -> numActual.n < numExpected.n
            [] operator = "NumericGreaterThan" -> numActual.n > numExpected.n
            [] operator = "NumericGreaterThanEquals" -> numActual.n >= numExpected.n

NumericOperators ==
  {"NumericEquals", "NumericNotEquals", "NumericLessThan", "NumericLessThanEquals",
   "NumericGreaterThan", "NumericGreaterThanEquals"}

\* The evaluator functions of the registry that the model's policies use.
ApplyEvaluator(operator, expected, actual) ==
  CASE operator = "StringEquals" ->
         IsStr(expected) /\ IsStr(actual) /\ expected.s = actual.s
    [] operator = "StringNotEquals" ->
         IsStr(expected) /\ IsStr(actual) /\ expected.s # actual.s
    [] operator = "IpMatch" -> IpMatch(expected, actual)
    [] operator = "NotIpMatch" -> NotIpMatch(expected, actual)
    [] operator = "IpEquals" -> IpEquals(expected, actual)
    [] operator \in NumericOperators -> NumericCompare(operator, expected, actual)

\* One operator key of AutorixConditionEvaluator.evaluate: "throw" for an
\* operator that is not registered, "false" where the method returns false,
\* "true" where its loop goes on.
EvaluationsPass(operator, es, context) ==
  \A i \in DOMAIN es : ApplyEvaluator(operator, es[i].v, resolvePath(context, es[i].k))

OperatorOutcome(operator, evaluations, context) ==
  IF operator \notin RegisteredOperators THEN "throw"
  ELSE IF ~Truthy(evaluations) \/ evaluations.t \notin {"object", "array"} THEN "false"
  ELSE IF EvaluationsPass(operator, allEntries(evaluations), context) THEN "true"
  ELSE "false"

\* AutorixConditionEvaluator.evaluate: "true", "false" or "throw".
OperatorOutcomes(es, context) ==
  FirstFailure([i \in DOMAIN es |-> OperatorOutcome(es[i].k, es[i].v, context)])

conditionEvaluate(condition, context) == OperatorOutcomes(allEntries(condition), context)

\* `!resolved || evaluate(resolved)` of the deny phase; the allow phase tests
\* the same with an `if` and a `continue`. "hit" (canAccess returns with this
\* statement), "miss" (the loop goes on) or "throw".
HitOrMiss(passed) ==
  CASE passed = "true" -> "hit" [] passed = "throw" -> "throw" [] OTHER -> "miss"

ConditionOutcome(resolved, context) ==
  CASE ~resolved.ok -> "throw"
    [] resolved.ok /\ ~Truthy(resolved.v) -> "hit"
    [] OTHER -> HitOrMiss(conditionEvaluate(resolved.v, context))

\* What canAccess finds for one statement in the phase of its effect.
PolicyOutcome(policy, requestedAction, requestedResource, registry, context) ==
  IF ~(actionsMatch(policy.action, requestedAction)
       /\ resourcesMatch(policy.resource, requestedResource))
  THEN "miss"
  ELSE ConditionOutcome(resolvePolicyConditions(policy.condition, registry, context),
                        context)

AccessResult(allowed, reason, matchedPolicy) ==
  [kind |-> "decision", allowed |-> allowed, reason |-> reason,
   matchedPolicy |-> matchedPolicy]

\* One phase of canAccess over the outcomes of the statements: the position
\* of the first statement of the effect that hits or throws, 0 when the loop
\* ends without returning.
PhaseStop(subjectPolicies, outcomes, effect) ==
  IF \A i \in DOMAIN subjectPolicies :
       subjectPolicies[i].effect # effect \/ outcomes[i] = "miss"
  THEN 0
  ELSE CHOOSE i \in DOMAIN subjectPolicies :
         /\ subjectPolicies[i].effect = effect /\ outcomes[i] # "miss"
         /\ \A j \in 1..(i - 1) :
              subjectPolicies[j].effect # effect \/ outcomes[j] = "miss"

\* Phase 1 (deny) stopped at d, phase 2 (allow) at a.
AccessPhases(subjectPolicies, outcomes, d, a) ==
  CASE d # 0 -> IF outcomes[d] = "throw" THEN Thrown("Error", <<>>)
                ELSE AccessResult(FALSE, "ExplicitDeny", subjectPolicies[d])
    [] d = 0 /\ a # 0 -> IF outcomes[a] = "throw" THEN Thrown("Error", <<>>)
                         ELSE AccessResult(TRUE, "ExplicitAllow", subjectPolicies[a])
    [] OTHER -> AccessResult(FALSE, "DefaultDeny", Undef)

AccessOutcomes(subjectPolicies, outcomes) ==
  AccessPhases(subjectPolicies, outcomes,
               PhaseStop(subjectPolicies, outcomes, "deny"),
               PhaseStop(subjectPolicies, outcomes, "allow"))

canAccess(subjectPolicies, requestedAction, requestedResource, registry, context) ==
  AccessOutcomes(subjectPolicies,
    [i \in DOMAIN subjectPolicies |->
       PolicyOutcome(subjectPolicies[i], requestedAction, requestedResource,
                     registry, context)])

\* ---------------------- the Express adapter (packages/express/src)

\* One call made while a request is served: the function called and, for
\* next, the error it is called with ("" for next()).
Call(name, arg) == [call |-> name, arg |-> arg]

\* resolveResource(spec, req): the calls it makes and whether it throws. A
\* spec is a string, an object without a loader, or an object with idFrom
\* and loader, either of which may throw.
resolveResource(spec) ==
  CASE spec = "loader" ->
         [calls |-> <<Call("idFrom", ""), Call("loader", "")>>, throws |-> FALSE]
    [] spec = "idFrom throws" -> [calls |-> <<Call("idFrom", "")>>, throws |-> TRUE]
    [] spec = "loader throws" ->
         [calls |-> <<Call("idFrom", ""), Call("loader", "")>>, throws |-> TRUE]
    [] OTHER -> [calls |-> <<>>, throws |-> FALSE]

\* req.autorix.can: opts.enforcer.can, then opts.onDecision when there is
\* one; "true" or "false" as it resolves, "throw" when either call throws.
autorixCan(req) ==
  IF req.enforcer = "throws" THEN [calls |-> <<Call("enforcer.can", "")>>, result |-> "throw"]
  ELSE [calls |-> <<Call("enforcer.can", "")>>
                    \o (IF req.onDecision = "none" THEN <<>> ELSE <<Call("onDecision", "")>>),
        result |-> IF req.onDecision = "throws" THEN "throw"
                   ELSE IF req.enforcer = "allows" THEN "true" ELSE "false"]

\* enforce without the test of the answer.
autorixEnforceAlways(req) == [calls |-> autorixCan(req).calls, error |-> ""]

\* req.autorix.enforce: the error it rejects with, "" when it resolves.
autorixEnforce(req) ==
  LET can == autorixCan(req)
  IN [calls |-> can.calls,
      error |-> CASE can.result = "throw" -> "Error"
                  [] can.result = "false" -> "AutorixForbiddenError"
                  [] OTHER -> ""]

\* config.context: called when it is a function.
ConfigContext(req) ==
  [calls |-> IF req.context \in {"function", "function throws"}
             THEN <<Call("config.context", "")>> ELSE <<>>,
   throws |-> req.context = "function throws"]

\* authorizeMiddleware(req, res, next): the calls it makes, the last of
\* them next. Whatever is thrown inside the try is handed to next.
authorizeMiddleware(req, hasAutorix) ==
  IF ~hasAutorix THEN <<Call("next", "AutorixMissingMiddlewareError")>>
  ELSE IF req.requireAuth /\ req.principal = "null"
  THEN <<Call("next", "AutorixUnauthenticatedError")>>
  ELSE LET ctxExtra == ConfigContext(req)
           resource == IF req.resource = "none" THEN [calls |-> <<>>, throws |-> FALSE]
                       ELSE resolveResource(req.resource)
           enforce == autorixEnforce(req)
       IN IF ctxExtra.throws THEN ctxExtra.calls \o <<Call("next", "Error")>>
          ELSE IF resource.throws
          THEN ctxExtra.calls \o resource.calls \o <<Call("next", "Error")>>
          ELSE ctxExtra.calls \o resource.calls \o enforce.calls
               \o <<Call("next", enforce.error)>>

\* statusCode of the errors of AutorixHttpErrors; the error handler of the
\* application answers 500 for any other error.
statusCode(error) ==
  CASE error = "AutorixForbiddenError" -> 403
    [] error = "AutorixUnauthenticatedError" -> 401
    [] error = "AutorixMissingMiddlewareError" -> 500
    [] OTHER -> 500

\* ------------------------------------------------------------------ inputs

\* An object literal: the entries whose value is not undefined.
ObjOf(entries) == Obj(SelectSeq(entries, LAMBDA e : e.v # Undef))

Statement(sid, effect, action, resource, condition) ==
  ObjOf(<<KV("Sid", sid), KV("Effect", effect), KV("Action", action),
          KV("Resource", resource), KV("Condition", condition)>>)

Document(statements) == Obj(<<KV("Statement", Arr(statements))>>)

Cond(operator, key, expected) == Obj(<<KV(operator, Obj(<<KV(key, expected)>>))>>)

AllowAll == Statement(Str("AllowAll"), Str("Allow"), Arr(<<Str("*")>>), Arr(<<Str("*")>>), Undef)

DenySensitive ==
  Statement(Str("DenySensitive"), Str("Deny"), Arr(<<Str("doc:delete")>>),
            Arr(<<Str("doc/*")>>), Cond("StringEquals", "resource.sensitive", Str("true")))

AllowRead == Statement(Undef, Str("Allow"), Str("doc:read"), Str("doc/*"), Undef)

DenyDoc == Statement(Undef, Str("Deny"), Str("doc:*"), Str("*"), Undef)

AllowOwner ==
  Statement(Str("AllowOwner"), Str("Allow"), Str("doc:*"), Str("doc/*"),
            Cond("StringEquals", "resource.ownerId", Str("${principal.id}")))

\* The malformed statement of the validation tests.
BadStatement == Statement(Undef, Str("ALLOW"), Arr(<<>>), Num(123), Undef)

StatementPool == {AllowAll, DenySensitive, AllowRead, DenyDoc, AllowOwner, BadStatement}

SeqsUpTo(S, n) == UNION {[1..m -> S] : m \in 0..n}

GeneratedDocuments == {Document(ss) : ss \in SeqsUpTo(StatementPool, MaxStatements)}

\* The documents evaluateAll's lists are drawn from, null and undefined
\* entries included.
DocumentPool ==
  {NullV, Undef, Document(<<AllowAll>>), Document(<<DenySensitive>>),
   Document(<<AllowRead, DenyDoc>>), Document(<<BadStatement>>)}

Actions == {"doc:read", "doc:delete"}

Resources == {"doc/1", "img/1"}

Context(ownerId, sensitive) ==
  Obj(<<KV("principal", Obj(<<KV("id", Str("u1"))>>)),
        KV("resource", Obj(<<KV("ownerId", Str(ownerId)), KV("sensitive", Str(sensitive))>>))>>)

Contexts == {Context("u1", "false"), Context("u2", "true")}

ValidateFlags == {Undef, Bool(TRUE), Bool(FALSE)}

PolicyStatement(effect, actions, res, condition) ==
  [effect |-> effect, action |-> actions, resource |-> res, condition |-> condition]

\* The statements PolicyEngine.canAccess is given are drawn from these; the
\* last two throw when their action and resource match (an operator that is
\* not registered, a variable that is not registered).
SubjectPolicyPool ==
  {PolicyStatement("allow", <<"*">>, "*", Undef),
   PolicyStatement("deny", <<"doc:delete">>, "doc/*",
                   Cond("StringEquals", "resource.sensitive", Str("true"))),
   PolicyStatement("deny", <<"img:*", "doc:read">>, "*1", Undef),
   PolicyStatement("allow", <<"doc:*">>, "doc/*",
                   Cond("StringEquals", "resource.ownerId", Str("${owner}"))),
   PolicyStatement("deny", <<"doc:delete">>, "img/*", Cond("Foo", "userId", Str("u1"))),
   PolicyStatement("allow", <<"*:read">>, "img/1",
                   Cond("StringEquals", "userId", Str("${nobody}")))}

\* The variable registry the engine is constructed with: ${owner} resolves to
\* context.userId.
VariableRegistry == [name \in {"owner"} |-> "userId"]

EngineContext(ownerId, sensitive) ==
  Obj(<<KV("userId", Str("u1")),
        KV("resource", Obj(<<KV("ownerId", Str(ownerId)), KV("sensitive", Str(sensitive))>>))>>)

EngineContexts == {EngineContext("u1", "false"), EngineContext("u2", "true")}

\* ------------------------------------------------------------------- state

VARIABLES
  policies,    \* the policy list of the request (evaluateAll's input.policies)
  action,      \* input.action
  resource,    \* input.resource
  ctx,         \* input.ctx
  call,        \* the last direct call of evaluate: [policy, validate], or NoResult
  decision,    \* what that call returned or threw
  pc,          \* "idle" before the call, "loop" inside evaluateAll, "done" after
  idx,         \* evaluateAll: position of the loop in policies (one-based)
  acc,         \* evaluateAll: sawAllow, matchedStatements, and what it returned
  evaluated,   \* evaluateAll: the positions evaluate was called for, in call order
  result,      \* evaluateAll: the Decision returned or the error thrown
  subjectPolicies,  \* PolicyEngine.canAccess: the statements of the subject
  context,          \* PolicyEngine.canAccess: the evaluation context
  access            \* PolicyEngine.canAccess: the result returned or the error thrown

coreVars == <<policies, action, resource, ctx, call, decision, pc, idx, acc, evaluated, result>>

engineVars == <<subjectPolicies, context, access>>

VARIABLES
  memPolicies,     \* MemoryPolicyProvider.policies: the record stored under each id
  memAttachments,  \* MemoryPolicyProvider.attachments, in push order
  memInput,        \* the input of the getPolicies call, NoResult before it
  memResult,       \* the array that call resolved to
  redisStrings,    \* Redis string keys: the JSON stored under each key
  redisSets,       \* Redis set keys: the members of each set
  redisAdded,      \* the (id, scope) pairs addPolicy has been called with
  redisAttached,   \* the (policyId, scope, principal) attachPolicy has been called with
  redisInput,      \* the input of the getPolicies call, NoResult before it
  redisResult      \* the policy sources that call resolved to

memoryVars == <<memPolicies, memAttachments, memInput, memResult>>

redisVars == <<redisStrings, redisSets, redisAdded, redisAttached, redisInput, redisResult>>

VARIABLES
  wildPattern,  \* wildcardMatch: the pattern argument
  wildInput,    \* wildcardMatch: the input argument
  wildResult,   \* "true" or "false" as wildcardMatch returned, "throw", "none" before
  varValue,     \* resolveValue: the value argument (ctx is the context argument)
  varResult,    \* what resolveValue returned, NoResult before the call
  assertedOn,   \* assertAllowed: the Decision it was called with, NoResult before
  asserted      \* assertAllowed: "return" or the error thrown, NoResult before

VARIABLES
  fnOperator,   \* the operator whose evaluator function is called, "" for none
  fnExpected,   \* the evaluator's expected argument (the policy's value)
  fnActual,     \* the evaluator's actual argument (the context's value)
  fnResult      \* "true" or "false" as the evaluator returned, "none" before

fnVars == <<fnOperator, fnExpected, fnActual, fnResult>>

VARIABLES
  provider,          \* "redis" or "mongodb": the provider deletePolicy is called on, "none"
  delTarget,         \* the params of the deletePolicy call, NoResult before it
  delPc,             \* "idle", "scanned" (Redis: SCAN replied), "running", "done"
  delPending,        \* commands of deletePolicy not executed yet: the keys to
                     \* SREM (Redis), "deleteOne" and "deleteMany" (MongoDB)
  mongoPolicies,     \* the policies collection: _id -> document
  mongoAttachments   \* the policy_attachments collection: a set of documents

deleteVars == <<provider, delTarget, delPc, delPending, mongoPolicies, mongoAttachments>>

VARIABLES
  adReq,      \* the request and the options of the adapter that serves it
  adPc,       \* the handler that runs next: a middleware, the guard, the route
              \* handler, the error handler; "idle" before, "responded" after
  adAutorix,  \* Express: TRUE when req.autorix is set
  adEvents,   \* the calls made while the request is served, in order
  adResult    \* NestJS: what canActivate returned or threw, NoResult before

adapterVars == <<adReq, adPc, adAutorix, adEvents, adResult>>

\* The state of the packages around the core: the registry's evaluators,
\* the providers a policy is deleted from, and the framework adapters.
extVars == <<fnVars, deleteVars, adapterVars>>

utilVars ==
  <<wildPattern, wildInput, wildResult, varValue, varResult, assertedOn, asserted, extVars>>

\* No evaluator function is called or asked for.
FnIdle ==
  /\ fnOperator = ""
  /\ fnExpected = [t |-> "undefined"]
  /\ fnActual = [t |-> "undefined"]
  /\ fnResult = "none"

\* No provider has a deletePolicy call; the MongoDB collections are empty.
DeleteIdle ==
  /\ provider = "none"
  /\ delTarget = [kind |-> "none"]
  /\ delPc = "idle"
  /\ delPending = {}
  /\ mongoPolicies = <<>>
  /\ mongoAttachments = {}

\* No adapter serves a request.
AdapterIdle ==
  /\ adReq = [kind |-> "none"]
  /\ adPc = "idle"
  /\ adAutorix = FALSE
  /\ adEvents = <<>>
  /\ adResult = [kind |-> "none"]

ExtIdle == FnIdle /\ DeleteIdle /\ AdapterIdle

vars == <<coreVars, engineVars, memoryVars, redisVars, utilVars>>

\* No call of wildcardMatch or resolveValue is made or asked for.
UtilsIdle ==
  /\ wildPattern = ""
  /\ wildInput = ""
  /\ wildResult = "none"
  /\ varValue = [t |-> "undefined"]
  /\ varResult = [kind |-> "none"]
  /\ assertedOn = [kind |-> "none"]
  /\ asserted = [kind |-> "none"]
  /\ ExtIdle

\* A provider nothing has been added to and nothing has been asked of.
MemoryEmpty ==
  /\ memPolicies = <<>>
  /\ memAttachments = <<>>
  /\ memInput = [kind |-> "none"]
  /\ memResult = <<>>

RedisEmpty ==
  /\ redisStrings = <<>>
  /\ redisSets = <<>>
  /\ redisAdded = {}
  /\ redisAttached = {}
  /\ redisInput = [kind |-> "none"]
  /\ redisResult = {}

\* The request: what is asked of the core evaluator or of the PolicyEngine.
\* A run makes one call, so the inputs of the other engine are empty.
RequestInit ==
  /\ action \in Actions
  /\ resource \in Resources
  /\ \/ /\ policies \in {<<d>> : d \in GeneratedDocuments}
                         \cup SeqsUpTo(DocumentPool, MaxPolicies)
        /\ ctx \in Contexts
        /\ subjectPolicies = <<>>
        /\ context = Obj(<<>>)
     \/ /\ policies = <<>>
        /\ ctx = Obj(<<>>)
        /\ subjectPolicies \in SeqsUpTo(SubjectPolicyPool, MaxSubjectPolicies)
        /\ context \in EngineContexts

EvalInit ==
  /\ RequestInit
  /\ MemoryEmpty
  /\ RedisEmpty
  /\ UtilsIdle
  /\ access = NoResult
  /\ call = NoResult
  /\ decision = NoResult
  /\ pc = "idle"
  /\ idx = 1
  /\ acc = AllStart
  /\ evaluated = <<>>
  /\ result = NoResult

\* The caller has one document and evaluates it with evaluate.
CallEvaluate ==
  /\ pc = "idle"
  /\ Len(policies) = 1
  /\ \E v \in ValidateFlags :
       /\ call' = [policy |-> policies[1], validate |-> v]
       /\ decision' = evaluate([action |-> action, resource |-> resource,
                                policy |-> policies[1], ctx |-> ctx, validate |-> v])
  /\ pc' = "done"
  /\ UNCHANGED <<policies, action, resource, ctx, idx, acc, evaluated, result>>
  /\ UNCHANGED <<engineVars, memoryVars, redisVars, utilVars>>

\* The caller hands the whole list to evaluateAll.
EvaluateAllEnter ==
  /\ pc = "idle"
  /\ pc' = "loop"
  /\ UNCHANGED <<policies, action, resource, ctx, call, decision, idx, acc, evaluated, result>>
  /\ UNCHANGED <<engineVars, memoryVars, redisVars, utilVars>>

\* EvaluateAllIterate without the return on EXPLICIT_DENY: the loop goes on
\* and the deny is only remembered.
EvaluateAllIterateNoReturn ==
  /\ pc = "loop"
  /\ idx <= Len(policies)
  /\ acc' = IF acc.returned # NoResult /\ acc.returned.kind = "decision"
            THEN [AllBody([acc EXCEPT !.returned = NoResult], policies[idx], action,
                          resource, ctx) EXCEPT !.returned = acc.returned]
            ELSE AllBody(acc, policies[idx], action, resource, ctx)
  /\ evaluated' = IF Truthy(policies[idx]) THEN Append(evaluated, idx) ELSE evaluated
  /\ IF acc'.returned # NoResult /\ (acc'.returned.kind = "throw" \/ idx = Len(policies))
     THEN pc' = "done" /\ result' = acc'.returned /\ idx' = idx
     ELSE pc' = "loop" /\ result' = result /\ idx' = idx + 1
  /\ UNCHANGED <<policies, action, resource, ctx, call, decision>>
  /\ UNCHANGED <<engineVars, memoryVars, redisVars, utilVars>>

\* One iteration of evaluateAll's loop; a return or a throw inside it ends
\* the call.
EvaluateAllIterate ==
  /\ pc = "loop"
  /\ idx <= Len(policies)
  /\ acc' = AllBody(acc, policies[idx], action, resource, ctx)
  /\ evaluated' = IF Truthy(policies[idx]) THEN Append(evaluated, idx) ELSE evaluated
  /\ IF acc'.returned # NoResult
     THEN pc' = "done" /\ result' = acc'.returned /\ idx' = idx
     ELSE pc' = "loop" /\ result' = result /\ idx' = idx + 1
  /\ UNCHANGED <<policies, action, resource, ctx, call, decision>>
  /\ UNCHANGED <<engineVars, memoryVars, redisVars, utilVars>>

\* The loop is over: evaluateAll returns allow or default deny.
EvaluateAllReturn ==
  /\ pc = "loop"
  /\ idx > Len(policies)
  /\ pc' = "done"
  /\ result' = AllEnd(acc)
  /\ UNCHANGED <<policies, action, resource, ctx, call, decision, idx, acc, evaluated>>
  /\ UNCHANGED <<engineVars, memoryVars, redisVars, utilVars>>

\* The caller asks the PolicyEngine.
CanAccess ==
  /\ pc = "idle"
  /\ access' = canAccess(subjectPolicies, action, resource, VariableRegistry, context)
  /\ pc' = "done"
  /\ UNCHANGED <<policies, action, resource, ctx, call, decision, idx, acc, evaluated, result>>
  /\ UNCHANGED <<subjectPolicies, context, memoryVars, redisVars, utilVars>>

EvalNext ==
  CallEvaluate \/ EvaluateAllEnter \/ EvaluateAllIterate \/ EvaluateAllReturn \/ CanAccess

Init == EvalInit

Next == EvalNext

Spec == Init /\ [][Next]_vars

\* ------------------------- requests about one statement (evaluate, canAccess)

\* A statement that allows every action on every resource under a condition.
AllowIf(condition) == Statement(Undef, Str("Allow"), Str("*"), Str("*"), condition)

\* Documents the schema check is asked about: an empty string or an empty
\* array as Action or Resource, an Effect in the wrong case, a Statement
\* that is no array or is missing.
MalformedDocuments ==
  {Document(<<Statement(Undef, Str("Allow"), Str(""), Str("*"), Undef)>>),
   Document(<<Statement(Undef, Str("Allow"), Str("*"), Str(""), Undef)>>),
   Document(<<Statement(Undef, Str("Deny"), Arr(<<>>), Str("*"), Undef)>>),
   Document(<<Statement(Undef, Str("Allow"), Str("*"), Arr(<<>>), Undef)>>),
   Document(<<Statement(Undef, Str("allow"), Str("*"), Str("*"), Undef)>>),
   Obj(<<KV("Statement", Str("x"))>>),
   Obj(<<KV("Version", Str("1"))>>)}

\* Condition blocks with an operator key that is not registered, alone and
\* after a registered operator that passes or fails.
UnregisteredConditions ==
  {Cond("Foo", "principal.id", Str("u1")),
   Obj(<<KV("StringEquals", Obj(<<KV("principal.id", Str("nobody"))>>)),
         KV("Foo", Obj(<<KV("principal.id", Str("u1"))>>))>>),
   Obj(<<KV("Foo", Obj(<<KV("principal.id", Str("u1"))>>)),
         KV("StringEquals", Obj(<<KV("principal.id", Str("nobody"))>>))>>)}

\* Condition entries about data the context does not hold: the context path
\* is missing, the variable's path is missing, or both are.
MissingDataConditions ==
  {Cond(op, e[1], Str(e[2])) :
     op \in OPERATORS,
     e \in {<<"resource.missing", "u1">>,
            <<"resource.missing", "undefined">>,
            <<"principal.id", "${principal.missing}">>,
            <<"resource.missing", "${principal.missing}">>,
            <<"resource.missing.deeper", "${request.missing.deeper}">>}}

StatementDocuments ==
  MalformedDocuments
    \cup {Document(<<AllowIf(c)>>) : c \in UnregisteredConditions \cup MissingDataConditions}
    \cup {Document(<<AllowOwner>>), Document(<<AllowAll>>)}

\* Contexts for the owner condition: principal.id and resource.ownerId are
\* equal strings, different strings, a number and its numeral, or ownerId is
\* absent.
OwnerContext(id, ownerId) ==
  Obj(<<KV("principal", Obj(<<KV("id", id)>>)),
        KV("resource", ObjOf(<<KV("ownerId", ownerId), KV("sensitive", Str("false"))>>))>>)

OwnerContexts ==
  {OwnerContext(id, ownerId) :
     id \in {Str("u1"), Str("1"), Str("undefined")},
     ownerId \in {Str("u1"), Str("u2"), Num(1), Undef}}

EngineOwnerContext(userId) ==
  Obj(<<KV("userId", userId), KV("principal", Obj(<<KV("id", Str("u1"))>>))>>)

StatementInit ==
  /\ action \in Actions
  /\ resource \in Resources
  /\ \/ /\ policies \in {<<d>> : d \in StatementDocuments}
        /\ ctx \in OwnerContexts
        /\ subjectPolicies = <<>>
        /\ context = Obj(<<>>)
     \/ /\ policies = <<>>
        /\ ctx = Obj(<<>>)
        /\ subjectPolicies \in
             {<<PolicyStatement(effect, <<a>>, "*", c)>> :
                effect \in {"allow", "deny"}, a \in {"*", "img:*"},
                c \in UnregisteredConditions}
        /\ context \in {EngineOwnerContext(Str("u1")), EngineOwnerContext(Str("nobody"))}
  /\ MemoryEmpty
  /\ RedisEmpty
  /\ UtilsIdle
  /\ access = NoResult
  /\ call = NoResult
  /\ decision = NoResult
  /\ pc = "idle"
  /\ idx = 1
  /\ acc = AllStart
  /\ evaluated = <<>>
  /\ result = NoResult

\* One call of evaluate on the document, or of canAccess on the statement.
StatementNext ==
  \/ CallEvaluate /\ subjectPolicies = <<>>
  \/ CanAccess /\ policies = <<>>

SpecStatements == StatementInit /\ [][StatementNext]_vars

\* --------------------- calls of wildcardMatch and resolveValue themselves

\* Longest pattern and longest input wildcardMatch is called with.
MaxPatternLen == 3

MaxInputLen == 3

StringsOver(chars, n) == {JoinStrings(seq, "") : seq \in SeqsUpTo(chars, n)}

WildPatterns == StringsOver({"a", "*", "?", "."}, MaxPatternLen) \cup {"document:*", "Doc"}

WildInputs ==
  StringsOver({"a", "?", "."}, MaxInputLen) \cup {"document:read", "image:read", "doc", "Doc"}

\* The values resolveValue is called with: a reference alone, with
\* whitespace or text around it, two references, strings without one, and
\* values that are not strings.
VarValues ==
  {Str("${principal.id}"), Str(" ${principal.id} "), Str("${principal.id}\n"),
   Str("${ principal.id }"), Str("x${principal.id}"), Str("${principal.id}x"),
   Str("${principal.id}${resource.ownerId}"), Str("${resource.missing}"),
   Str("principal.id"), Str("${}"), Str("$"), Str(""), Str("  "),
   Num(1), Bool(TRUE), NullV, Undef, Arr(<<Str("${principal.id}")>>),
   Obj(<<KV("id", Str("${principal.id}"))>>)}

UtilsInit ==
  /\ \/ /\ wildPattern \in WildPatterns
        /\ wildInput \in WildInputs
        /\ varValue = Undef
        /\ ctx = Obj(<<>>)
     \/ /\ wildPattern = ""
        /\ wildInput = ""
        /\ varValue \in VarValues
        /\ ctx \in OwnerContexts
  /\ wildResult = "none"
  /\ varResult = NoResult
  /\ assertedOn = NoResult
  /\ asserted = NoResult
  /\ ExtIdle
  /\ policies = <<>>
  /\ action = "doc:read"
  /\ resource = "doc/1"
  /\ subjectPolicies = <<>>
  /\ context = Obj(<<>>)
  /\ access = NoResult
  /\ call = NoResult
  /\ decision = NoResult
  /\ pc = "idle"
  /\ idx = 1
  /\ acc = AllStart
  /\ evaluated = <<>>
  /\ result = NoResult
  /\ MemoryEmpty
  /\ RedisEmpty

\* wildcardMatch(wildPattern, wildInput)
WildcardMatch ==
  /\ pc = "idle"
  /\ wildResult' = wildcardMatch(wildPattern, wildInput)
  /\ pc' = "done"
  /\ UNCHANGED <<wildPattern, wildInput, varValue, varResult, assertedOn, asserted, extVars>>
  /\ UNCHANGED <<policies, action, resource, ctx, call, decision, idx, acc, evaluated, result>>
  /\ UNCHANGED <<engineVars, memoryVars, redisVars>>

\* resolveValue(varValue, ctx)
ResolveValue ==
  /\ pc = "idle"
  /\ varResult' = resolveValue(varValue, ctx)
  /\ pc' = "done"
  /\ UNCHANGED <<wildPattern, wildInput, wildResult, varValue, assertedOn, asserted, extVars>>
  /\ UNCHANGED <<policies, action, resource, ctx, call, decision, idx, acc, evaluated, result>>
  /\ UNCHANGED <<engineVars, memoryVars, redisVars>>

UtilsNext == WildcardMatch \/ ResolveValue

SpecUtils == UtilsInit /\ [][UtilsNext]_vars

\* ------------------------------------- requests about one condition block

\* Most entries under one operator of a generated condition block.
MaxEntries == 2

\* The key-value maps of an operator: up to MaxEntries entries with
\* different keys, in every order.
ConditionMaps(entries) ==
  {Obj(es) : es \in {s \in SeqsUpTo(entries, MaxEntries) :
                       \A i, j \in DOMAIN s : s[i].k = s[j].k => i = j}}

\* A missing block, the empty block, and the blocks of one operator or of
\* two different operators.
ConditionBlocks(operators, maps) ==
  {Undef, Obj(<<>>)}
    \cup {Obj(<<KV(op, m)>>) : op \in operators, m \in maps}
    \cup {Obj(<<KV(ops[1], m1), KV(ops[2], m2)>>) :
            ops \in {o \in operators \X operators : o[1] # o[2]}, m1 \in maps, m2 \in maps}

CoreConditionBlocks ==
  ConditionBlocks({"StringEquals", "StringLike"},
    ConditionMaps({KV("principal.id", Str("u1")),
                   KV("resource.sensitive", Str("false")),
                   KV("resource.ownerId", Str("${principal.id}"))}))

EngineConditionBlocks ==
  ConditionBlocks({"StringEquals", "StringNotEquals"},
    ConditionMaps({KV("userId", Str("u1")),
                   KV("principal.id", Str("u1")),
                   KV("principal.id", Str("u2"))}))

ConditionInit ==
  /\ action = "doc:read"
  /\ resource = "doc/1"
  /\ \/ /\ policies \in {<<Document(<<AllowIf(c)>>)>> : c \in CoreConditionBlocks}
        /\ ctx \in OwnerContexts
        /\ subjectPolicies = <<>>
        /\ context = Obj(<<>>)
     \/ /\ policies = <<>>
        /\ ctx = Obj(<<>>)
        /\ subjectPolicies \in
             {<<PolicyStatement("allow", <<"*">>, "*", c)>> : c \in EngineConditionBlocks}
        /\ context \in {EngineOwnerContext(Str("u1")), EngineOwnerContext(Str("nobody"))}
  /\ MemoryEmpty
  /\ RedisEmpty
  /\ UtilsIdle
  /\ access = NoResult
  /\ call = NoResult
  /\ decision = NoResult
  /\ pc = "idle"
  /\ idx = 1
  /\ acc = AllStart
  /\ evaluated = <<>>
  /\ result = NoResult

SpecConditions == ConditionInit /\ [][StatementNext]_vars

\* ------------------------------------ a decision handed to assertAllowed

AssertMessages == {Undef, Str("Denied")}

\* The caller hands the Decision it got from evaluate or evaluateAll to
\* assertAllowed, with or without a message.
AssertAllowed ==
  /\ pc = "done"
  /\ asserted = NoResult
  /\ \E d \in {decision, result}, message \in AssertMessages :
       /\ d.kind = "decision"
       /\ assertedOn' = d
       /\ asserted' = assertAllowed(d, message)
  /\ UNCHANGED <<wildPattern, wildInput, wildResult, varValue, varResult, extVars>>
  /\ UNCHANGED <<coreVars, engineVars, memoryVars, redisVars>>

AssertNext ==
  \/ CallEvaluate /\ subjectPolicies = <<>>
  \/ EvaluateAllEnter
  \/ EvaluateAllIterate
  \/ EvaluateAllReturn
  \/ AssertAllowed

SpecAssert == StatementInit /\ [][AssertNext]_vars

\* ----------------- MemoryPolicyProvider (packages/storage/src/types.ts)

\* An AutorixScope; id is undefined when the scope has none.
Scope(type, id) == [type |-> type, id |-> id]

\* sameScope comparing the types only.
sameScopeTypeOnly(a, b) == a.type = b.type

sameScope(a, b) == a.type = b.type /\ Coalesce(a.id, NullV) = Coalesce(b.id, NullV)

PrincipalRef(type, id) == [type |-> type, id |-> id]

\* `input.roleIds ?? []`, `input.groupIds ?? []`
IdsOrEmpty(ids) == IF Nullish(ids) THEN <<>> ELSE ids.a

RefsOf(type, ids) == [i \in DOMAIN ids |-> PrincipalRef(type, ids[i])]

\* principalsToMatch without the groups.
principalsToMatchNoGroups(input) ==
  <<PrincipalRef(input.principal.type, input.principal.id)>>
    \o RefsOf("ROLE", IdsOrEmpty(input.roleIds))

principalsToMatch(input) ==
  <<PrincipalRef(input.principal.type, input.principal.id)>>
    \o RefsOf("ROLE", IdsOrEmpty(input.roleIds))
    \o RefsOf("GROUP", IdsOrEmpty(input.groupIds))

Range(seq) == {seq[i] : i \in DOMAIN seq}

\* An array push where the Set add is.
SetAddAgain(members, x) == Append(members, x)

\* Set.prototype.add; a Set iterates in insertion order.
SetAdd(members, x) == IF x \in Range(members) THEN members ELSE Append(members, x)

\* The test of the first loop of getPolicies for one attachment.
AttachmentMatches(att, scope, principals) ==
  /\ sameScope(att.scope, scope)
  /\ \E i \in DOMAIN principals :
       principals[i].type = att.principalType /\ principals[i].id = att.principalId

\* The first loop of getPolicies from position i of the attachments.
RECURSIVE matchedPolicyIds(_, _, _, _, _)
matchedPolicyIds(attachments, i, scope, principals, matched) ==
  IF i > Len(attachments) THEN matched
  ELSE matchedPolicyIds(attachments, i + 1, scope, principals,
         IF AttachmentMatches(attachments[i], scope, principals)
         THEN SetAdd(matched, attachments[i].policyId)
         ELSE matched)

\* PolicySources without the test of the record's scope.
PolicySourcesAnyScope(stored, matched, i, scope, sources) ==
  LET rest == SelectSeq(SubSeq(matched, i, Len(matched)), LAMBDA id : id \in DOMAIN stored)
  IN sources \o [k \in DOMAIN rest |-> [id |-> stored[rest[k]].id,
                                        document |-> stored[rest[k]].document]]

\* The second loop of getPolicies from position i of the matched ids.
RECURSIVE PolicySources(_, _, _, _, _)
PolicySources(stored, matched, i, scope, sources) ==
  IF i > Len(matched) THEN sources
  ELSE PolicySources(stored, matched, i + 1, scope,
         IF matched[i] \in DOMAIN stored /\ sameScope(stored[matched[i]].scope, scope)
         THEN Append(sources, [id |-> stored[matched[i]].id,
                               document |-> stored[matched[i]].document])
         ELSE sources)

\* MemoryPolicyProvider.getPolicies on a provider holding stored and
\* attachments. input = [scope, principal, roleIds, groupIds].
memoryGetPolicies(stored, attachments, input) ==
  PolicySources(stored,
                matchedPolicyIds(attachments, 1, input.scope, principalsToMatch(input), <<>>),
                1, input.scope, <<>>)

\* Map.prototype.set
MapSet(map, key, value) ==
  [k \in DOMAIN map \cup {key} |-> IF k = key THEN value ELSE map[k]]

PolicyIds == {"p1", "p2"}

\* The scopes policies are stored and attached under, and those asked for.
StoreScopes == {Scope("TENANT", Str("t1")), Scope("PLATFORM", Undef)}

QueryScopes == StoreScopes \cup {Scope("TENANT", Str("t2")), Scope("PLATFORM", NullV)}

StoredDocuments == {Document(<<AllowAll>>)}

AttachPrincipals ==
  {PrincipalRef("USER", "u1"), PrincipalRef("ROLE", "r1"), PrincipalRef("GROUP", "g1")}

GetPoliciesInputs ==
  [kind : {"input"},
   scope : QueryScopes,
   principal : {PrincipalRef("USER", "u1"), PrincipalRef("USER", "u2")},
   roleIds : {Undef, Arr(<<"r1">>)},
   groupIds : {Undef, Arr(<<"g1">>)}]

\* The evaluators are not called while a provider is exercised.
EvaluatorsIdle ==
  /\ policies = <<>>
  /\ action = "doc:read"
  /\ resource = "doc/1"
  /\ ctx = Obj(<<>>)
  /\ subjectPolicies = <<>>
  /\ context = Obj(<<>>)
  /\ access = NoResult
  /\ call = NoResult
  /\ decision = NoResult
  /\ pc = "idle"
  /\ idx = 1
  /\ acc = AllStart
  /\ evaluated = <<>>
  /\ result = NoResult

MemoryInit == EvaluatorsIdle /\ MemoryEmpty /\ RedisEmpty /\ UtilsIdle

\* getPolicies leaves the provider as it is, so a run makes its calls of
\* addPolicy and attachPolicy first and ends with the getPolicies it asks
\* about.
\* addPolicy(policy)
MemoryAddPolicy ==
  /\ memInput = NoResult
  /\ \E id \in PolicyIds, scope \in StoreScopes, document \in StoredDocuments :
       memPolicies' = MapSet(memPolicies, id,
                             [id |-> id, scope |-> scope, document |-> document])
  /\ UNCHANGED <<memAttachments, memInput, memResult, coreVars, engineVars, redisVars, utilVars>>

\* attachPolicy(params)
MemoryAttachPolicy ==
  /\ memInput = NoResult
  /\ Len(memAttachments) < MaxAttachments
  /\ \E policyId \in PolicyIds, scope \in StoreScopes, principal \in AttachPrincipals :
       memAttachments' = Append(memAttachments,
                                [policyId |-> policyId, scope |-> scope,
                                 principalType |-> principal.type,
                                 principalId |-> principal.id])
  /\ UNCHANGED <<memPolicies, memInput, memResult, coreVars, engineVars, redisVars, utilVars>>

\* getPolicies(input)
MemoryGetPolicies ==
  /\ memInput = NoResult
  /\ \E input \in GetPoliciesInputs :
       /\ memInput' = input
       /\ memResult' = memoryGetPolicies(memPolicies, memAttachments, input)
  /\ UNCHANGED <<memPolicies, memAttachments, coreVars, engineVars, redisVars, utilVars>>

MemoryNext == MemoryAddPolicy \/ MemoryAttachPolicy \/ MemoryGetPolicies

SpecMemory == MemoryInit /\ [][MemoryNext]_vars

\* ------ RedisPolicyProvider (packages/storage-redis/src/redis-policy-provider.ts)

\* The default of options.keyPrefix.
keyPrefix == "autorix"

\* `${scope.id ?? "global"}`
ScopeSegment(scope) == JSString(Coalesce(scope.id, Str("global")))

getPolicyKey(scope, policyId) ==
  keyPrefix \o ":policy:" \o scope.type \o ":" \o ScopeSegment(scope) \o ":" \o policyId

getAttachmentKey(scope, principal) ==
  keyPrefix \o ":attachment:" \o scope.type \o ":" \o ScopeSegment(scope) \o ":"
    \o principal.type \o ":" \o principal.id

\* What JSON.stringify keeps of a value: object members that are undefined
\* are left out, array items that are undefined become null.
RECURSIVE JsonValue(_)
JsonValue(x) ==
  CASE x.t = "object" ->
         Obj([i \in DOMAIN SelectSeq(x.o, LAMBDA e : e.v # Undef) |->
                KV(SelectSeq(x.o, LAMBDA e : e.v # Undef)[i].k,
                   JsonValue(SelectSeq(x.o, LAMBDA e : e.v # Undef)[i].v))])
    [] x.t = "array" ->
         Arr([i \in DOMAIN x.a |-> IF x.a[i] = Undef THEN NullV ELSE JsonValue(x.a[i])])
    [] OTHER -> x

\* The text JSON.stringify gives, kept as the value it denotes.
JSONStringify(value) == [json |-> JsonValue(value)]

JSONParse(text) == text.json

\* SET key value
RedisSet(strings, key, value) ==
  [k \in DOMAIN strings \cup {key} |-> IF k = key THEN value ELSE strings[k]]

\* SADD key member
RedisSAdd(sets, key, member) ==
  [k \in DOMAIN sets \cup {key} |->
     IF k = key THEN (IF k \in DOMAIN sets THEN sets[k] ELSE {}) \cup {member}
     ELSE sets[k]]

\* SUNION keys; the order of the reply is not specified, so the reply is
\* kept as the set it lists.
RedisSUnion(sets, keys) == UNION {sets[k] : k \in keys \cap DOMAIN sets}

\* The loop of getPolicies over the ids SUNION replied with and the JSON MGET
\* replied with for their keys (null for a key that does not exist).
ParsedPolicies(strings, scope, policyIds) ==
  {[id |-> id, document |-> JSONParse(strings[getPolicyKey(scope, id)])] :
     id \in {i \in policyIds : getPolicyKey(scope, i) \in DOMAIN strings}}

\* The destructuring defaults `roleIds = []`, `groupIds = []`.
IdsOrDefault(ids) == IF ids = Undef THEN <<>> ELSE ids.a

RedisPrincipals(input) ==
  <<PrincipalRef(input.principal.type, input.principal.id)>>
    \o RefsOf("ROLE", IdsOrDefault(input.roleIds))
    \o RefsOf("GROUP", IdsOrDefault(input.groupIds))

AttachmentKeys(scope, principals) ==
  {getAttachmentKey(scope, principals[i]) : i \in DOMAIN principals}

\* RedisPolicyProvider.getPolicies against the keys of the server.
redisGetPolicies(strings, sets, input) ==
  ParsedPolicies(strings, input.scope,
                 RedisSUnion(sets, AttachmentKeys(input.scope, RedisPrincipals(input))))

RedisStoreScopes ==
  {Scope("PLATFORM", Undef), Scope("PLATFORM", Str("global")), Scope("TENANT", Str("t1"))}

RedisQueryScopes == RedisStoreScopes \cup {Scope("PLATFORM", NullV)}

RedisAttachPrincipals == {PrincipalRef("USER", "u1"), PrincipalRef("ROLE", "r1")}

RedisInputs ==
  [kind : {"input"},
   scope : RedisQueryScopes,
   principal : {PrincipalRef("USER", "u1")},
   roleIds : {Undef, Arr(<<"r1">>)},
   groupIds : {Undef, Arr(<<"g1">>)}]

RedisInit == EvaluatorsIdle /\ MemoryEmpty /\ RedisEmpty /\ UtilsIdle

\* getPolicies writes no key, so a run makes its calls of addPolicy and
\* attachPolicy first and ends with the getPolicies it asks about.
\* addPolicy(params) without a ttl
RedisAddPolicy ==
  /\ redisInput = NoResult
  /\ Cardinality(redisAdded) + Cardinality(redisAttached) < MaxStoreCalls
  /\ \E id \in PolicyIds, scope \in RedisStoreScopes, document \in StoredDocuments :
       /\ redisStrings' = RedisSet(redisStrings, getPolicyKey(scope, id),
                                   JSONStringify(document))
       /\ redisAdded' = redisAdded \cup {[id |-> id, scope |-> scope]}
  /\ UNCHANGED <<redisSets, redisAttached, redisInput, redisResult>>
  /\ UNCHANGED <<coreVars, engineVars, memoryVars, utilVars>>

\* attachPolicy(params)
RedisAttachPolicy ==
  /\ redisInput = NoResult
  /\ Cardinality(redisAdded) + Cardinality(redisAttached) < MaxStoreCalls
  /\ \E policyId \in PolicyIds, scope \in RedisStoreScopes,
        principal \in RedisAttachPrincipals :
       /\ redisSets' = RedisSAdd(redisSets, getAttachmentKey(scope, principal), policyId)
       /\ redisAttached' = redisAttached \cup
            {[policyId |-> policyId, scope |-> scope, principal |-> principal]}
  /\ UNCHANGED <<redisStrings, redisAdded, redisInput, redisResult>>
  /\ UNCHANGED <<coreVars, engineVars, memoryVars, utilVars>>

\* getPolicies(input)
RedisGetPolicies ==
  /\ redisInput = NoResult
  /\ \E input \in RedisInputs :
       /\ redisInput' = input
       /\ redisResult' = redisGetPolicies(redisStrings, redisSets, input)
  /\ UNCHANGED <<redisStrings, redisSets, redisAdded, redisAttached>>
  /\ UNCHANGED <<coreVars, engineVars, memoryVars, utilVars>>

RedisNext == RedisAddPolicy \/ RedisAttachPolicy \/ RedisGetPolicies

SpecRedis == RedisInit /\ [][RedisNext]_vars

\* ------------------------- calls of the registry's evaluator functions

IpOperators == {"IpMatch", "NotIpMatch", "IpEquals"}

\* Addresses with four numeric octets, octets written with a leading zero,
\* above 255, empty or not numeric, strings with three or five parts or
\* none, and values that are not strings.
IpActuals ==
  {Str("10.0.0.1"), Str("10.0.1.1"), Str("192.168.1.1"), Str("192.168.1.200"),
   Str("010.0.0.1"), Str("0.0.0.1"), Str("256.0.0.1"), Str("a.b.c.1"),
   Str("10.0.0.x"), Str("10.0.0."), Str("10.0.0"), Str("10.0.0.1.1"),
   Str("foo"), Str(""), Num(1), Undef}

\* The same as expected values, and CIDR ranges of every kind of length:
\* 0, 1, byte boundaries, 25, 32, above 32, not numeric, missing.
IpExpecteds ==
  {Str("10.0.0.1"), Str("192.168.1.1"), Str("0.0.0.1"), Str("0.0.0.0"),
   Str("a.b.c.1"), Str("10.0.0"), Str("bar"), Str(""), Num(1),
   Str("10.0.0.0/8"), Str("192.168.1.0/24"), Str("192.168.1.128/25"),
   Str("10.0.0.1/32"), Str("0.0.0.0/0"), Str("128.0.0.0/1"), Str("0.0.0.0/8"),
   Str("10.0.0.0/33"), Str("10.0.0.0/x"), Str("10.0.0.0/"), Str("/8"),
   Str("a.b.c.0/24"), Str("foo/8"), Str("10.0.0/8")}

\* Numbers, numerals as strings, and what is no number: null, undefined,
\* the empty string, text, booleans, arrays and an object.
NumericOperands ==
  {Num(0), Num(1), Num(5), Num(0 - 1), Str("5"), Str(" 5 "), Str("-1"), Str(""),
   Str("abc"), NullV, Undef, Bool(TRUE), Bool(FALSE), Arr(<<>>), Arr(<<Num(5)>>),
   Arr(<<Num(1), Num(2)>>), Obj(<<>>)}

FnInit ==
  /\ \/ /\ fnOperator \in IpOperators
        /\ fnExpected \in IpExpecteds
        /\ fnActual \in IpActuals
     \/ /\ fnOperator \in NumericOperators
        /\ fnExpected \in NumericOperands
        /\ fnActual \in NumericOperands
  /\ fnResult = "none"
  /\ DeleteIdle
  /\ AdapterIdle
  /\ wildPattern = ""
  /\ wildInput = ""
  /\ wildResult = "none"
  /\ varValue = Undef
  /\ varResult = NoResult
  /\ assertedOn = NoResult
  /\ asserted = NoResult
  /\ EvaluatorsIdle
  /\ MemoryEmpty
  /\ RedisEmpty

\* ipEvaluators[fnOperator](fnExpected, fnActual)
IpEvaluate ==
  /\ fnOperator \in IpOperators
  /\ fnResult = "none"
  /\ fnResult' = IF ApplyEvaluator(fnOperator, fnExpected, fnActual) THEN "true" ELSE "false"
  /\ UNCHANGED <<fnOperator, fnExpected, fnActual, deleteVars, adapterVars>>
  /\ UNCHANGED <<wildPattern, wildInput, wildResult, varValue, varResult, assertedOn, asserted>>
  /\ UNCHANGED <<coreVars, engineVars, memoryVars, redisVars>>

\* numericEvaluators[fnOperator](fnExpected, fnActual)
NumericEvaluate ==
  /\ fnOperator \in NumericOperators
  /\ fnResult = "none"
  /\ fnResult' = IF ApplyEvaluator(fnOperator, fnExpected, fnActual) THEN "true" ELSE "false"
  /\ UNCHANGED <<fnOperator, fnExpected, fnActual, deleteVars, adapterVars>>
  /\ UNCHANGED <<wildPattern, wildInput, wildResult, varValue, varResult, assertedOn, asserted>>
  /\ UNCHANGED <<coreVars, engineVars, memoryVars, redisVars>>

FnNext == IpEvaluate \/ NumericEvaluate

SpecEvaluators == FnInit /\ [][FnNext]_vars

\* ------------- deletePolicy and the calls that run at the same time
\* (storage-redis/src/redis-policy-provider.ts,
\*  storage-mongodb/src/mongodb-policy-provider.ts)

\* SREM key member; Redis removes a set that becomes empty.
RedisSRem(sets, key, member) ==
  LET left == IF key \in DOMAIN sets THEN sets[key] \ {member} ELSE {}
  IN [k \in (IF left = {} THEN DOMAIN sets \ {key} ELSE DOMAIN sets) |->
        IF k = key THEN left ELSE sets[k]]

\* DEL key
RedisDel(strings, key) == [k \in DOMAIN strings \ {key} |-> strings[k]]

getAttachmentPattern(scope) ==
  keyPrefix \o ":attachment:" \o scope.type \o ":" \o ScopeSegment(scope) \o ":*"

\* The keys a SCAN with MATCH pattern replies with, for a pattern that ends
\* in its only "*": the keys of the moment that begin with the rest. The
\* iteration is taken as one reading of the key space.
ScanMatch(sets, pattern) ==
  {k \in DOMAIN sets : StartsWith(k, Slice(pattern, 1, Len(pattern) - 1))}

\* A document of the policy_attachments collection.
AttachmentDoc(policyId, scope, principal) ==
  [policyId |-> policyId, scopeType |-> scope.type, scopeId |-> Coalesce(scope.id, NullV),
   principalType |-> principal.type, principalId |-> principal.id]

\* MongoDBPolicyProvider.getPolicies against the two collections.
mongoGetPolicies(policyDocs, attachmentDocs, input) ==
  LET principals == RedisPrincipals(input)
      found == {a \in attachmentDocs :
                  /\ a.scopeType = input.scope.type
                  /\ a.scopeId = Coalesce(input.scope.id, NullV)
                  /\ \E i \in DOMAIN principals :
                       /\ a.principalType = principals[i].type
                       /\ a.principalId = principals[i].id}
      policyIds == {a.policyId : a \in found}
  IN {[id |-> id, document |-> policyDocs[id].document] :
        id \in {i \in policyIds \cap DOMAIN policyDocs :
                  /\ policyDocs[i].scopeType = input.scope.type
                  /\ policyDocs[i].scopeId = Coalesce(input.scope.id, NullV)}}

DeleteScopes == {Scope("TENANT", Str("t1")), Scope("PLATFORM", Undef)}

DeletePrincipals == {PrincipalRef("USER", "u1"), PrincipalRef("ROLE", "r1")}

DeleteInit ==
  /\ provider \in {"redis", "mongodb"}
  /\ delTarget = NoResult
  /\ delPc = "idle"
  /\ delPending = {}
  /\ mongoPolicies = <<>>
  /\ mongoAttachments = {}
  /\ FnIdle
  /\ AdapterIdle
  /\ wildPattern = ""
  /\ wildInput = ""
  /\ wildResult = "none"
  /\ varValue = Undef
  /\ varResult = NoResult
  /\ assertedOn = NoResult
  /\ asserted = NoResult
  /\ EvaluatorsIdle
  /\ MemoryEmpty
  /\ RedisEmpty

DeleteUnchanged ==
  UNCHANGED <<coreVars, engineVars, memoryVars, fnVars, adapterVars, wildPattern, wildInput, wildResult,
              varValue, varResult, assertedOn, asserted, redisAdded, redisAttached,
              redisInput, redisResult>>

\* RedisPolicyProvider.addPolicy(params): SET
DeleteRedisAddPolicy ==
  /\ provider = "redis"
  /\ \E id \in PolicyIds, scope \in DeleteScopes, document \in StoredDocuments :
       redisStrings' = RedisSet(redisStrings, getPolicyKey(scope, id), JSONStringify(document))
  /\ UNCHANGED <<redisSets, deleteVars>>
  /\ DeleteUnchanged

\* RedisPolicyProvider.attachPolicy(params): SADD. The calls of the model
\* are made before deletePolicy has completed.
DeleteRedisAttachPolicy ==
  /\ provider = "redis"
  /\ delPc # "done"
  /\ \E policyId \in PolicyIds, scope \in DeleteScopes, principal \in DeletePrincipals :
       redisSets' = RedisSAdd(redisSets, getAttachmentKey(scope, principal), policyId)
  /\ UNCHANGED <<redisStrings, deleteVars>>
  /\ DeleteUnchanged

\* RedisPolicyProvider.detachPolicy(params): SREM
DeleteRedisDetachPolicy ==
  /\ provider = "redis"
  /\ \E policyId \in PolicyIds, scope \in DeleteScopes, principal \in DeletePrincipals :
       redisSets' = RedisSRem(redisSets, getAttachmentKey(scope, principal), policyId)
  /\ UNCHANGED <<redisStrings, deleteVars>>
  /\ DeleteUnchanged

\* RedisPolicyProvider.deletePolicy(params), up to the end of its SCAN loop.
RedisDeleteScan ==
  /\ provider = "redis"
  /\ delPc = "idle"
  /\ \E id \in PolicyIds, scope \in DeleteScopes :
       /\ delTarget' = [id |-> id, scope |-> scope]
       /\ delPending' = ScanMatch(redisSets, getAttachmentPattern(scope))
  /\ delPc' = "scanned"
  /\ UNCHANGED <<redisStrings, redisSets, provider, mongoPolicies, mongoAttachments>>
  /\ DeleteUnchanged

\* One SREM of the Promise.all of deletePolicy reaches the server.
RedisDeleteSRem ==
  /\ provider = "redis"
  /\ delPc = "scanned"
  /\ \E key \in delPending :
       /\ redisSets' = RedisSRem(redisSets, key, delTarget.id)
       /\ delPending' = delPending \ {key}
  /\ UNCHANGED <<redisStrings, provider, delTarget, delPc, mongoPolicies, mongoAttachments>>
  /\ DeleteUnchanged

\* The DEL of deletePolicy, after which the call completes.
RedisDeleteDel ==
  /\ provider = "redis"
  /\ delPc = "scanned"
  /\ delPending = {}
  /\ redisStrings' = RedisDel(redisStrings, getPolicyKey(delTarget.scope, delTarget.id))
  /\ delPc' = "done"
  /\ UNCHANGED <<redisSets, provider, delTarget, delPending, mongoPolicies, mongoAttachments>>
  /\ DeleteUnchanged

\* MongoDBPolicyProvider.addPolicy(params): an upsert by _id
MongoAddPolicy ==
  /\ provider = "mongodb"
  /\ \E id \in PolicyIds, scope \in DeleteScopes, document \in StoredDocuments :
       mongoPolicies' = MapSet(mongoPolicies, id,
                               [scopeType |-> scope.type,
                                scopeId |-> Coalesce(scope.id, NullV),
                                document |-> document])
  /\ UNCHANGED <<redisStrings, redisSets, provider, delTarget, delPc, delPending,
                 mongoAttachments>>
  /\ DeleteUnchanged

\* MongoDBPolicyProvider.attachPolicy(params): an upsert of the attachment.
\* The calls of the model are made before deletePolicy has completed.
MongoAttachPolicy ==
  /\ provider = "mongodb"
  /\ delPc # "done"
  /\ \E policyId \in PolicyIds, scope \in DeleteScopes, principal \in DeletePrincipals :
       mongoAttachments' = mongoAttachments \cup {AttachmentDoc(policyId, scope, principal)}
  /\ UNCHANGED <<redisStrings, redisSets, provider, delTarget, delPc, delPending,
                 mongoPolicies>>
  /\ DeleteUnchanged

\* MongoDBPolicyProvider.detachPolicy(params): deleteOne
MongoDetachPolicy ==
  /\ provider = "mongodb"
  /\ \E policyId \in PolicyIds, scope \in DeleteScopes, principal \in DeletePrincipals :
       mongoAttachments' = mongoAttachments \ {AttachmentDoc(policyId, scope, principal)}
  /\ UNCHANGED <<redisStrings, redisSets, provider, delTarget, delPc, delPending,
                 mongoPolicies>>
  /\ DeleteUnchanged

\* MongoDBPolicyProvider.deletePolicy(policyId) sends its two commands.
MongoDeleteCall ==
  /\ provider = "mongodb"
  /\ delPc = "idle"
  /\ \E id \in PolicyIds : delTarget' = [id |-> id]
  /\ delPending' = {"deleteOne", "deleteMany"}
  /\ delPc' = "running"
  /\ UNCHANGED <<redisStrings, redisSets, provider, mongoPolicies, mongoAttachments>>
  /\ DeleteUnchanged

\* The server executes one of the two commands, in either order; the call
\* completes when both have been.
MongoDeleteCommand ==
  /\ provider = "mongodb"
  /\ delPc = "running"
  /\ \E command \in delPending :
       /\ delPending' = delPending \ {command}
       /\ delPc' = IF delPending = {command} THEN "done" ELSE "running"
       /\ IF command = "deleteOne"
          THEN /\ mongoPolicies' = [k \in DOMAIN mongoPolicies \ {delTarget.id} |->
                                      mongoPolicies[k]]
               /\ UNCHANGED mongoAttachments
          ELSE /\ mongoAttachments' = {a \in mongoAttachments : a.policyId # delTarget.id}
               /\ UNCHANGED mongoPolicies
  /\ UNCHANGED <<redisStrings, redisSets, provider, delTarget>>
  /\ DeleteUnchanged

DeleteNext ==
  \/ DeleteRedisAddPolicy
  \/ DeleteRedisAttachPolicy
  \/ DeleteRedisDetachPolicy
  \/ RedisDeleteScan
  \/ RedisDeleteSRem
  \/ RedisDeleteDel
  \/ MongoAddPolicy
  \/ MongoAttachPolicy
  \/ MongoDetachPolicy
  \/ MongoDeleteCall
  \/ MongoDeleteCommand

SpecDelete == DeleteInit /\ [][DeleteNext]_vars

\* ------------------------------- a request served by the Express adapter

\* The application: autorixExpress registered or not, its context built or
\* not; the route's authorize config; what the enforcer and the callbacks do.
ExpressRequests ==
  [kind : {"express"},
   registered : BOOLEAN,
   buildRequestContext : {"resolves", "throws"},
   principal : {"null", "user"},
   requireAuth : BOOLEAN,
   context : {"none", "object", "function", "function throws"},
   resource : {"none", "string", "loader", "idFrom throws", "loader throws"},
   enforcer : {"allows", "denies", "throws"},
   onDecision : {"none", "returns", "throws"}]

AdapterInit(requests) ==
  /\ adReq \in requests
  /\ adPc = "request"
  /\ adAutorix = FALSE
  /\ adEvents = <<>>
  /\ adResult = NoResult
  /\ FnIdle
  /\ DeleteIdle
  /\ wildPattern = ""
  /\ wildInput = ""
  /\ wildResult = "none"
  /\ varValue = Undef
  /\ varResult = NoResult
  /\ assertedOn = NoResult
  /\ asserted = NoResult
  /\ EvaluatorsIdle
  /\ RedisEmpty

ExpressInit == AdapterInit(ExpressRequests) /\ MemoryEmpty

AdapterUnchanged ==
  UNCHANGED <<coreVars, engineVars, memoryVars, redisVars, fnVars, deleteVars, wildPattern,
              wildInput, wildResult, varValue, varResult, assertedOn, asserted>>

\* Where Express goes after a middleware called next(arg).
AfterNext(arg, following) == IF arg = "" THEN following ELSE "errorHandler"

\* Express hands the request to the first middleware of the application.
ExpressRoute ==
  /\ adReq.kind = "express"
  /\ adPc = "request"
  /\ adPc' = IF adReq.registered THEN "autorixExpress" ELSE "authorize"
  /\ UNCHANGED <<adReq, adAutorix, adEvents, adResult>>
  /\ AdapterUnchanged

\* autorixMiddleware(req, res, next)
AutorixExpress ==
  /\ adPc = "autorixExpress"
  /\ IF adReq.buildRequestContext = "throws"
     THEN /\ adEvents' = adEvents \o <<Call("autorixExpress", ""), Call("next", "Error")>>
          /\ adPc' = "errorHandler"
          /\ UNCHANGED adAutorix
     ELSE /\ adAutorix' = TRUE
          /\ adEvents' = adEvents \o <<Call("autorixExpress", ""), Call("next", "")>>
          /\ adPc' = "authorize"
  /\ UNCHANGED <<adReq, adResult>>
  /\ AdapterUnchanged

\* authorizeMiddleware(req, res, next)
Authorize ==
  /\ adPc = "authorize"
  /\ LET calls == authorizeMiddleware(adReq, adAutorix)
     IN /\ adEvents' = adEvents \o <<Call("authorize", "")>> \o calls
        /\ adPc' = AfterNext(calls[Len(calls)].arg, "handler")
  /\ UNCHANGED <<adReq, adAutorix, adResult>>
  /\ AdapterUnchanged

\* The route handler answers.
RouteHandler ==
  /\ adReq.kind = "express"
  /\ adPc = "handler"
  /\ adEvents' = adEvents \o <<Call("handler", "")>>
  /\ adResult' = [kind |-> "response", status |-> 200]
  /\ adPc' = "responded"
  /\ UNCHANGED <<adReq, adAutorix>>
  /\ AdapterUnchanged

\* The error handler answers with the status of the error next was given.
ErrorHandler ==
  /\ adPc = "errorHandler"
  /\ adEvents' = adEvents \o <<Call("errorHandler", "")>>
  /\ adResult' = [kind |-> "response", status |-> statusCode(adEvents[Len(adEvents)].arg)]
  /\ adPc' = "responded"
  /\ UNCHANGED <<adReq, adAutorix>>
  /\ AdapterUnchanged

ExpressNext == ExpressRoute \/ AutorixExpress \/ Authorize \/ RouteHandler \/ ErrorHandler

SpecExpress == ExpressInit /\ [][ExpressNext]_vars

\* ------------------- the NestJS guard (packages/nestjs/src/autorix.guard.ts)

\* defaultScopeResolver: the tenant of the request.
defaultScopeResolver(req) == Scope("TENANT", req.tenantId)

\* defaultPrincipalResolver: `user?.id ?? user?.sub ?? ""`, the user's roles.
defaultPrincipalResolver(req) ==
  [principalId |-> Coalesce(req.userId, Str("")).s, roleIds |-> Arr(req.roles),
   groupIds |-> Arr(<<>>)]

\* The exception for a principal without an id: onMissingPrincipal decides
\* in autorix.guard.ts, the other version always throws UnauthorizedException.
MissingPrincipal(req) ==
  IF req.version = "part_002" \/ req.onMissingPrincipal = "throw"
  THEN [kind |-> "throw", error |-> "UnauthorizedException"]
  ELSE [kind |-> "throw", error |-> "ForbiddenException", message |-> "Forbidden"]

\* The resource of the request: what options.resourceResolver returns
\* (autorix.guard.ts), what the @Resource metadata gives (the other version,
\* mode "param" with the id of the route).
GuardResource(req) ==
  CASE req.resource = "none" -> Undef
    [] req.version = "part_002" -> Obj(<<KV("type", Str("doc")), KV("id", Str("1"))>>)
    [] OTHER -> Obj(<<KV("type", Str("doc"))>>)

\* The resource evaluateAll is asked about: `${ctx.resource.type}/*` in
\* autorix.guard.ts, buildResourceString(type, id) in the other version.
GuardResourceString(req) ==
  LET res == GuardResource(req)
  IN IF ~Truthy(Prop(res, "type")) THEN "*"
     ELSE IF req.version = "part_002"
     THEN Prop(res, "type").s \o "/" \o Coalesce(Prop(res, "id"), Str("*")).s
     ELSE Prop(res, "type").s \o "/*"

defaultContextResolver(req, scope, principal) ==
  Obj(<<KV("principal", Obj(<<KV("id", Str(principal.principalId)),
                              KV("tenantId", scope.id),
                              KV("roles", principal.roleIds)>>)),
        KV("resource", GuardResource(req)),
        KV("request", Obj(<<>>)),
        KV("scope", Obj(<<KV("type", Str(scope.type)), KV("id", scope.id)>>))>>)

\* policies.map((p) => p?.document).filter(Boolean)
PolicyDocs(sources) ==
  SelectSeq([i \in DOMAIN sources |-> sources[i].document], LAMBDA d : Truthy(d))

\* The loop of canActivate that stops after its first action.
RECURSIVE GuardLoopFirstOnly(_, _, _, _, _, _)
GuardLoopFirstOnly(actions, i, policyDocs, res, cx, calls) ==
  IF i > Len(actions) \/ i > 1 THEN [calls |-> calls, result |-> [kind |-> "return"]]
  ELSE LET d == evaluateAll([action |-> actions[i], resource |-> res,
                             policies |-> policyDocs, ctx |-> cx])
           called == Append(calls, Call("evaluateAll", actions[i]))
       IN IF d.kind = "throw" THEN [calls |-> called, result |-> d]
          ELSE IF ~d.allowed
          THEN [calls |-> called,
                result |-> [kind |-> "throw", error |-> "ForbiddenException",
                            message |-> "Forbidden by policy (" \o d.reason \o ")"]]
          ELSE GuardLoopFirstOnly(actions, i + 1, policyDocs, res, cx, called)

\* The loop of canActivate over the declared actions, from position i: an
\* exception of evaluateAll goes to the caller as it is.
RECURSIVE GuardLoop(_, _, _, _, _, _)
GuardLoop(actions, i, policyDocs, res, cx, calls) ==
  IF i > Len(actions) THEN [calls |-> calls, result |-> [kind |-> "return"]]
  ELSE LET d == evaluateAll([action |-> actions[i], resource |-> res,
                             policies |-> policyDocs, ctx |-> cx])
           called == Append(calls, Call("evaluateAll", actions[i]))
       IN IF d.kind = "throw" THEN [calls |-> called, result |-> d]
          ELSE IF ~d.allowed
          THEN [calls |-> called,
                result |-> [kind |-> "throw", error |-> "ForbiddenException",
                            message |-> "Forbidden by policy (" \o d.reason \o ")"]]
          ELSE GuardLoop(actions, i + 1, policyDocs, res, cx, called)

\* The getPolicies input of canActivate.
GuardInput(scope, principal) ==
  [kind |-> "input", scope |-> scope,
   principal |-> PrincipalRef("USER", principal.principalId),
   roleIds |-> principal.roleIds, groupIds |-> principal.groupIds]

\* AutorixGuard.canActivate(context) with a MemoryPolicyProvider that
\* holds stored and attachments: the calls it makes and what it returns
\* or throws.
canActivate(req, stored, attachments) ==
  LET scope == defaultScopeResolver(req)
      principal == defaultPrincipalResolver(req)
      sources == memoryGetPolicies(stored, attachments, GuardInput(scope, principal))
  IN IF ~Truthy(req.actions) \/ Len(req.actions.a) = 0
     THEN [calls |-> <<>>, result |-> [kind |-> "return"]]
     ELSE IF principal.principalId = ""
     THEN [calls |-> <<>>, result |-> MissingPrincipal(req)]
     ELSE IF req.resource = "throws"
     THEN [calls |-> <<Call("resource", "")>>,
           result |-> IF req.version = "part_002"
                      THEN [kind |-> "throw", error |-> "ForbiddenException",
                            message |-> "Resource resolution failed"]
                      ELSE [kind |-> "throw", error |-> "Error"]]
     ELSE GuardLoop(req.actions.a, 1, PolicyDocs(sources), GuardResourceString(req),
                    defaultContextResolver(req, scope, principal),
                    (IF req.resource = "none" THEN <<>> ELSE <<Call("resource", "")>>)
                      \o <<Call("getPolicies", "")>>)

\* -------------------------------- a request served by the NestJS guard

GuardRequests ==
  [kind : {"nestjs"},
   version : {"autorix.guard.ts", "part_002"},
   actions : {Undef, Arr(<<>>), Arr(<<"doc:read">>), Arr(<<"doc:read", "doc:delete">>),
              Arr(<<"doc:delete", "doc:read">>)},
   tenantId : {Str("t1"), Str("t2")},
   userId : {Undef, Str(""), Str("u1")},
   roles : {<<>>, <<"r1">>},
   onMissingPrincipal : {"undefined", "deny", "throw"},
   resource : {"none", "doc", "throws"}]

\* What the provider of the guard holds: policy p1 of tenant t1, attached
\* to the user or a role in t1, to the user in t2, or not at all.
GuardDocuments ==
  {Document(<<AllowAll>>), Document(<<AllowRead>>), Document(<<AllowRead, DenyDoc>>),
   Document(<<BadStatement>>)}

GuardAttachments ==
  {<<>>,
   <<[policyId |-> "p1", scope |-> Scope("TENANT", Str("t1")), principalType |-> "USER",
      principalId |-> "u1"]>>,
   <<[policyId |-> "p1", scope |-> Scope("TENANT", Str("t1")), principalType |-> "ROLE",
      principalId |-> "r1"]>>,
   <<[policyId |-> "p1", scope |-> Scope("TENANT", Str("t2")), principalType |-> "USER",
      principalId |-> "u1"]>>}

GuardInit ==
  /\ AdapterInit(GuardRequests)
  /\ \E document \in GuardDocuments :
       memPolicies = MapSet(<<>>, "p1", [id |-> "p1", scope |-> Scope("TENANT", Str("t1")),
                                         document |-> document])
  /\ memAttachments \in GuardAttachments
  /\ memInput = NoResult
  /\ memResult = <<>>

\* Nest calls guard.canActivate(context) before the route handler.
GuardCanActivate ==
  /\ adReq.kind = "nestjs"
  /\ adPc = "request"
  /\ LET activation == canActivate(adReq, memPolicies, memAttachments)
     IN /\ adEvents' = adEvents \o activation.calls
        /\ adResult' = activation.result
        /\ adPc' = IF activation.result.kind = "return" THEN "handler" ELSE "responded"
  /\ UNCHANGED <<adReq, adAutorix>>
  /\ AdapterUnchanged

\* The route handler runs after the guard returned true.
GuardedHandler ==
  /\ adReq.kind = "nestjs"
  /\ adPc = "handler"
  /\ adEvents' = adEvents \o <<Call("handler", "")>>
  /\ adPc' = "responded"
  /\ UNCHANGED <<adReq, adAutorix, adResult>>
  /\ AdapterUnchanged

GuardNext == GuardCanActivate \/ GuardedHandler

SpecGuard == GuardInit /\ [][GuardNext]_vars

\* ------------------------------------------------- properties of evaluate

\* The statements of a document with the given Effect that pass the three
\* tests of evaluate's loop for the request.
MatchingStatements(policy, effect) ==
  {i \in DOMAIN StatementList(policy) :
     /\ Prop(StatementList(policy)[i], "Effect") = Str(effect)
     /\ StatementOutcome(StatementList(policy)[i], action, resource, ctx) = "match"}

\* The statements of the subject with the given effect that canAccess finds
\* to apply to the request.
HittingPolicies(effect) ==
  {i \in DOMAIN subjectPolicies :
     /\ subjectPolicies[i].effect = effect
     /\ PolicyOutcome(subjectPolicies[i], action, resource, VariableRegistry, context) = "hit"}

\* C1: deny overrides allow. When evaluate returns a Decision for a document
\* in which at least one Deny statement and at least one Allow statement
\* match the request (action, resource, condition absent or satisfied), the
\* Decision is allowed:false with reason EXPLICIT_DENY, in whatever order the
\* statements stand; and when PolicyEngine.canAccess returns a result for
\* statements among which a deny and an allow both apply, the result is
\* allowed:false with reason ExplicitDeny.
C1_DenyOverridesAllow ==
  /\ (/\ decision.kind = "decision"
      /\ Truthy(call.policy)
      /\ MatchingStatements(call.policy, "Deny") # {}
      /\ MatchingStatements(call.policy, "Allow") # {})
     => (~decision.allowed /\ decision.reason = "EXPLICIT_DENY")
  /\ (/\ access.kind = "decision"
      /\ HittingPolicies("deny") # {}
      /\ HittingPolicies("allow") # {})
     => (~access.allowed /\ access.reason = "ExplicitDeny")

\* evaluate has returned for a document whose matching Allow statement
\* stands before its matching Deny statement.
C1_Witness ==
  /\ decision.kind = "decision"
  /\ Truthy(call.policy)
  /\ \E i \in MatchingStatements(call.policy, "Allow") :
       \E j \in MatchingStatements(call.policy, "Deny") : i < j

\* C2: every Decision evaluate or evaluateAll returns has allowed true if
\* and only if its reason is EXPLICIT_ALLOW, and its reason is one of
\* EXPLICIT_ALLOW, EXPLICIT_DENY and DEFAULT_DENY.
C2_AllowedIffExplicitAllow ==
  \A d \in {decision, result} :
    d.kind = "decision" =>
      /\ d.allowed <=> d.reason = "EXPLICIT_ALLOW"
      /\ d.reason \in {"EXPLICIT_ALLOW", "EXPLICIT_DENY", "DEFAULT_DENY"}

\* evaluateAll has returned DEFAULT_DENY for a list with a document in it.
C2_Witness ==
  /\ result.kind = "decision"
  /\ result.reason = "DEFAULT_DENY"
  /\ \E i \in DOMAIN policies : Truthy(policies[i])

\* A null or undefined entry, or a valid document none of whose statements
\* passes the three tests for the request (an empty Statement array
\* included).
NothingMatches(policy) ==
  \/ ~Truthy(policy)
  \/ /\ validatePolicyDocument(policy) = <<>>
     /\ \A i \in DOMAIN StatementList(policy) :
          StatementOutcome(StatementList(policy)[i], action, resource, ctx) = "skip"

DefaultDeny == Decision(FALSE, "DEFAULT_DENY", <<>>)

\* C3: default deny. When no statement of the (valid) document matches the
\* request, evaluate returns exactly {allowed:false, reason:DEFAULT_DENY,
\* matchedStatements:[]}; when that is so of every document of the list,
\* evaluateAll returns exactly the same, an empty list and a list of only
\* null entries included.
C3_DefaultDeny ==
  /\ (decision # NoResult /\ NothingMatches(call.policy)) => decision = DefaultDeny
  /\ (/\ pc = "done"
      /\ result # NoResult
      /\ \A i \in DOMAIN policies : NothingMatches(policies[i]))
     => result = DefaultDeny

\* evaluateAll has returned for a list of a null entry and a document whose
\* statements all miss the request.
C3_Witness ==
  /\ pc = "done"
  /\ result = DefaultDeny
  /\ \A i \in DOMAIN policies : NothingMatches(policies[i])
  /\ \E i \in DOMAIN policies : ~Truthy(policies[i])
  /\ \E i \in DOMAIN policies : Truthy(policies[i]) /\ StatementList(policies[i]) # <<>>

\* ---------------------------------------------- properties of evaluateAll

\* What evaluate gives for one document of the list, as evaluateAll calls it.
DocumentOutcome(policy) ==
  evaluate([action |-> action, resource |-> resource, policy |-> policy, ctx |-> ctx,
            validate |-> Undef])

\* The outcome of each document of the list, NoResult at the positions
\* evaluateAll skips.
Outcomes ==
  [i \in DOMAIN policies |->
     IF Truthy(policies[i]) THEN DocumentOutcome(policies[i]) ELSE NoResult]

Failing(outs) == {i \in DOMAIN outs : outs[i].kind = "throw"}

Denying(outs) ==
  {i \in DOMAIN outs : outs[i].kind = "decision" /\ outs[i].reason = "EXPLICIT_DENY"}

Allowing(outs) ==
  {i \in DOMAIN outs : outs[i].kind = "decision" /\ outs[i].reason = "EXPLICIT_ALLOW"}

\* The reorderings of a list.
Reorderings(list) ==
  {[i \in DOMAIN list |-> list[f[i]]] :
     f \in {g \in [DOMAIN list -> DOMAIN list] :
              \A i, j \in DOMAIN list : g[i] = g[j] => i = j}}

\* evaluateAll's loop over a list whose documents evaluate to outs. evaluate
\* is a function of the document and the request, so what evaluateAll gives
\* for a reordered list is its loop over the reordered outcomes.
RECURSIVE LoopOver(_, _, _)
LoopOver(outs, i, sofar) ==
  IF sofar.returned # NoResult THEN sofar.returned
  ELSE IF i > Len(outs) THEN AllEnd(sofar)
  ELSE LoopOver(outs, i + 1,
                IF outs[i] = NoResult THEN sofar ELSE AllAfterEvaluate(sofar, outs[i]))

\* What evaluateAll gives for each reordering of the list.
ReorderedResults(outs) == {LoopOver(o, 1, AllStart) : o \in Reorderings(outs)}

\* Same allowed and reason, or the same failure.
SameOutcome(a, b) ==
  IF a.kind = "decision" /\ b.kind = "decision"
  THEN a.allowed = b.allowed /\ a.reason = b.reason
  ELSE a = b

\* C4 as stated: for every list of documents and every permutation of it,
\* evaluateAll yields the same outcome (same allowed and reason, or the same
\* failure).
C4_OrderIndependent ==
  (pc = "done" /\ result # NoResult) =>
    \A r \in ReorderedResults(Outcomes) : SameOutcome(r, result)

OrderIndependentUnlessFailing(outs, results) ==
  /\ result \in results
  /\ Failing(outs) = {} =>
       /\ result.kind = "decision"
       /\ \A r \in results : SameOutcome(r, result)
       /\ Denying(outs) # {} => result.reason = "EXPLICIT_DENY"
       /\ (Denying(outs) = {} /\ Allowing(outs) # {}) => result.reason = "EXPLICIT_ALLOW"
       /\ (Denying(outs) = {} /\ Allowing(outs) = {}) => result.reason = "DEFAULT_DENY"
  /\ Failing(outs) # {} =>
       \A r \in results :
         \/ r.kind = "throw" /\ \E i \in Failing(outs) : r = outs[i]
         \/ r.kind = "decision" /\ r.reason = "EXPLICIT_DENY" /\ Denying(outs) # {}
  /\ (result.kind = "decision" /\ result.reason = "EXPLICIT_ALLOW") =>
       (Failing(outs) = {} /\ Denying(outs) = {} /\ Allowing(outs) # {})

\* C4 amended: when no document of the list fails (validation or
\* evaluation), every permutation of the list yields a Decision with the
\* same allowed and reason; when some document fails, evaluateAll either
\* fails with the error of a failing document or returns EXPLICIT_DENY (a
\* denying document stands before every failing one), so permutations can
\* differ only among these. If any document evaluates to EXPLICIT_DENY the
\* result is never EXPLICIT_ALLOW nor DEFAULT_DENY, wherever the allowing
\* documents stand, and the result is EXPLICIT_ALLOW only if every document
\* is evaluated, none denies and at least one allows.
C4_OrderIndependentUnlessFailing ==
  (pc = "done" /\ result # NoResult) =>
    OrderIndependentUnlessFailing(Outcomes, ReorderedResults(Outcomes))

\* evaluateAll has returned EXPLICIT_DENY for a list of three documents none
\* of which fails, the allowing one ahead of the denying one.
C4_Witness ==
  /\ pc = "done"
  /\ result.kind = "decision"
  /\ result.reason = "EXPLICIT_DENY"
  /\ Failing(Outcomes) = {}
  /\ Len(policies) = 3
  /\ \E i \in Allowing(Outcomes) : \E j \in Denying(Outcomes) : i < j

\* The policies [Allow-all, Deny-if-sensitive].
AllowAllThenDenySensitive == <<Document(<<AllowAll>>), Document(<<DenySensitive>>)>>

\* The request is one on a sensitive resource: the Deny statement applies.
SensitiveRequest == StatementOutcome(DenySensitive, action, resource, ctx) = "match"

\* C5 as stated: over [Allow-all, Deny-if-sensitive] a request on a
\* non-sensitive resource is allowed, and a request on a sensitive resource
\* is denied with matchedStatements holding only the deny statement id of
\* the second document.
C5_OnlyDenyId ==
  (pc = "done" /\ result # NoResult /\ policies = AllowAllThenDenySensitive) =>
    IF SensitiveRequest
    THEN result = Decision(FALSE, "EXPLICIT_DENY", <<"DenySensitive">>)
    ELSE result.kind = "decision" /\ result.allowed

\* C5 amended: over [Allow-all, Deny-if-sensitive] a request on a
\* non-sensitive resource is allowed with the id of the allow statement, and
\* a request on a sensitive resource is denied with matchedStatements
\* holding the id matched in the first document followed by the deny
\* statement id of the second.
C5_AccumulatedIds ==
  (pc = "done" /\ result # NoResult /\ policies = AllowAllThenDenySensitive) =>
    IF SensitiveRequest
    THEN result = Decision(FALSE, "EXPLICIT_DENY", <<"AllowAll", "DenySensitive">>)
    ELSE result = Decision(TRUE, "EXPLICIT_ALLOW", <<"AllowAll">>)

\* evaluateAll has returned for [Allow-all, Deny-if-sensitive] and a request
\* on a sensitive resource.
C5_Witness ==
  /\ pc = "done"
  /\ result # NoResult
  /\ policies = AllowAllThenDenySensitive
  /\ SensitiveRequest

\* The first position at which the loop ends (a deny or a failure), 0 when
\* it runs to the end of the list.
FirstOf(stops) == IF stops = {} THEN 0 ELSE CHOOSE i \in stops : \A j \in stops : i <= j

\* The positions evaluate is called for up to position n, in list order.
RECURSIVE SuppliedUpTo(_)
SuppliedUpTo(n) ==
  IF n = 0 THEN <<>>
  ELSE IF Truthy(policies[n]) THEN Append(SuppliedUpTo(n - 1), n) ELSE SuppliedUpTo(n - 1)

\* The matchedStatements of the documents up to position n, concatenated.
RECURSIVE MatchedUpTo(_, _)
MatchedUpTo(outs, n) ==
  IF n = 0 THEN <<>>
  ELSE IF outs[n] = NoResult THEN MatchedUpTo(outs, n - 1)
  ELSE MatchedUpTo(outs, n - 1) \o outs[n].matchedStatements

ReturnsAtFirstDeny(outs, stop) ==
  /\ stop \in Denying(outs) =>
       /\ result = Decision(FALSE, "EXPLICIT_DENY", MatchedUpTo(outs, stop))
       /\ evaluated = SuppliedUpTo(stop)
  /\ (result.kind = "decision" /\ result.reason = "EXPLICIT_DENY") =>
       stop \in Denying(outs)

\* C6: evaluateAll evaluates the documents in list order and returns at the
\* first document whose evaluation is EXPLICIT_DENY: evaluate has been
\* called for the documents up to it, in order, and for no later one (which
\* is therefore not validated either), and the returned matchedStatements is
\* the concatenation, in order, of the matchedStatements of the documents
\* evaluated up to and including the denying one.
C6_ReturnsAtFirstDeny ==
  /\ pc = "loop" => evaluated = SuppliedUpTo(idx - 1)
  /\ (pc = "done" /\ result # NoResult) =>
       ReturnsAtFirstDeny(Outcomes, FirstOf(Denying(Outcomes) \cup Failing(Outcomes)))

\* evaluateAll has returned EXPLICIT_DENY at the second of three documents,
\* the first of which matched a statement and the third of which is invalid.
C6_Witness ==
  /\ pc = "done"
  /\ result.kind = "decision"
  /\ result.reason = "EXPLICIT_DENY"
  /\ Len(evaluated) = 2
  /\ DocumentOutcome(policies[evaluated[1]]).matchedStatements # <<>>
  /\ \E i \in Failing(Outcomes) : i > evaluated[2]

\* ------------------------------------- properties of the policy providers

\* Two scopes are equal: the same type, and the same id, an absent id being
\* equal to an absent or null one only.
ScopeEquals(a, b) ==
  /\ a.type = b.type
  /\ IF Nullish(a.id) THEN Nullish(b.id) ELSE a.id = b.id

ResultIds == {memResult[i].id : i \in DOMAIN memResult}

\* The attachments recorded under the requested scope for the policy.
AttachmentsInScope(id) ==
  {k \in DOMAIN memAttachments :
     /\ memAttachments[k].policyId = id
     /\ ScopeEquals(memAttachments[k].scope, memInput.scope)}

\* C7: scope isolation of the in-memory provider. After any sequence of
\* addPolicy and attachPolicy calls, every policy getPolicies returns is
\* stored with a scope equal to the requested one and was matched through an
\* attachment recorded under that scope; a principal whose attachments are
\* all in scope {TENANT, t1} gets an empty array for scope {TENANT, t2}.
C7_ScopeIsolation ==
  memInput # NoResult =>
    /\ \A id \in ResultIds :
         /\ id \in DOMAIN memPolicies
         /\ ScopeEquals(memPolicies[id].scope, memInput.scope)
         /\ AttachmentsInScope(id) # {}
    /\ (/\ memInput.scope = Scope("TENANT", Str("t2"))
        /\ \A k \in DOMAIN memAttachments :
             memAttachments[k].scope = Scope("TENANT", Str("t1")))
       => memResult = <<>>

\* getPolicies was asked for {TENANT, t2} by the user u1, whose policy is
\* stored and attached under {TENANT, t1} only.
C7_Witness ==
  /\ memInput # NoResult
  /\ memInput.scope = Scope("TENANT", Str("t2"))
  /\ memInput.principal = PrincipalRef("USER", "u1")
  /\ memAttachments # <<>>
  /\ \A k \in DOMAIN memAttachments :
       /\ memAttachments[k].scope = Scope("TENANT", Str("t1"))
       /\ memAttachments[k].principalType = "USER"
       /\ memAttachments[k].principalId = "u1"
       /\ memAttachments[k].policyId \in DOMAIN memPolicies
       /\ memPolicies[memAttachments[k].policyId].scope = Scope("TENANT", Str("t1"))
  /\ memResult = <<>>

\* The ids of input.roleIds or input.groupIds, none when the field is absent.
IdSet(ids) == IF Nullish(ids) THEN {} ELSE Range(ids.a)

\* The attachment binds its policy to the principal asking, to one of the
\* roles or to one of the groups.
BindsToPrincipal(att) ==
  \/ att.principalType = memInput.principal.type /\ att.principalId = memInput.principal.id
  \/ att.principalType = "ROLE" /\ att.principalId \in IdSet(memInput.roleIds)
  \/ att.principalType = "GROUP" /\ att.principalId \in IdSet(memInput.groupIds)

\* C8: role and group aggregation. getPolicies returns a policy id if and
\* only if the policy is stored with the requested scope and some attachment
\* in that scope binds it to the principal itself (same type and id), to
\* ROLE:r for an r of roleIds, or to GROUP:g for a g of groupIds; absent
\* roleIds and groupIds behave as empty lists.
C8_RoleGroupAggregation ==
  memInput # NoResult =>
    \A id \in PolicyIds :
      id \in ResultIds <=>
        /\ id \in DOMAIN memPolicies
        /\ ScopeEquals(memPolicies[id].scope, memInput.scope)
        /\ \E k \in AttachmentsInScope(id) : BindsToPrincipal(memAttachments[k])

\* getPolicies returned two policies, one attached to a role of the request
\* only and one attached to a group of the request only.
C8_Witness ==
  /\ memInput # NoResult
  /\ Len(memResult) = 2
  /\ \E id \in ResultIds : \A k \in AttachmentsInScope(id) :
       memAttachments[k].principalType = "ROLE"
  /\ \E id \in ResultIds : \A k \in AttachmentsInScope(id) :
       memAttachments[k].principalType = "GROUP"

\* C9: deduplication. After any sequence of addPolicy and attachPolicy calls,
\* the same policy attached twice to one principal or both directly and
\* through a role or group included, the array getPolicies returns holds each
\* policy id at most once.
C9_Deduplicated ==
  memInput # NoResult =>
    \A i, j \in DOMAIN memResult : memResult[i].id = memResult[j].id => i = j

\* getPolicies returned one policy that two attachments of the requested
\* scope bind to the request, one directly and one through a role.
C9_Witness ==
  /\ memInput # NoResult
  /\ Len(memResult) = 1
  /\ \E k, l \in AttachmentsInScope(memResult[1].id) :
       /\ memAttachments[k].principalType = "USER"
       /\ memAttachments[l].principalType = "ROLE"
       /\ BindsToPrincipal(memAttachments[k])
       /\ BindsToPrincipal(memAttachments[l])

\* C10: the Redis provider namespaces by exact scope. After any sequence of
\* addPolicy and attachPolicy calls, every policy getPolicies returns for a
\* scope was added under a scope equal to it and attached under a scope
\* equal to it (same type and same id, an absent id being equal to an
\* absent or null id only), never under a different one.
C10_ExactScopeNamespaces ==
  redisInput # NoResult =>
    \A source \in redisResult :
      /\ \E a \in redisAdded :
           a.id = source.id /\ ScopeEquals(a.scope, redisInput.scope)
      /\ \E t \in redisAttached :
           t.policyId = source.id /\ ScopeEquals(t.scope, redisInput.scope)

\* ------------------------------------------- properties of one statement

\* An Action or Resource that is empty: the empty string or the empty array.
EmptyPattern(x) == x = Str("") \/ x = Arr(<<>>)

MalformedStatement(stmt) ==
  \/ Prop(stmt, "Effect") \notin {Str("Allow"), Str("Deny")}
  \/ EmptyPattern(Prop(stmt, "Action"))
  \/ EmptyPattern(Prop(stmt, "Resource"))

\* A document with one of the structural problems: Statement is not an
\* array, or a statement has a wrong Effect or an empty Action or Resource.
Malformed(policy) ==
  /\ isPlainObject(policy)
  /\ \/ ~IsArr(Prop(policy, "Statement"))
     \/ \E i \in DOMAIN StatementList(policy) : MalformedStatement(StatementList(policy)[i])

ValidationError(d) ==
  d.kind = "throw" /\ d.error = "AutorixPolicyValidationError" /\ Len(d.errors) > 0

\* C11: validation before evaluation. Unless it is called with
\* validate:false, evaluate rejects every malformed policy document
\* (Statement not an array, an Effect other than 'Allow'/'Deny', an empty
\* Action or Resource, the empty string and the empty array included) by
\* throwing AutorixPolicyValidationError with the list of structural
\* problems; with validate:false no validation error is thrown.
C11_ValidationBeforeEvaluation ==
  (call # NoResult /\ Malformed(call.policy)) =>
    IF call.validate # Bool(FALSE) THEN ValidationError(decision)
    ELSE ~(decision.kind = "throw" /\ decision.error = "AutorixPolicyValidationError")

\* The condition block holds an operator key outside the registered ones.
HasUnregisteredOperator(condition, registered) ==
  isPlainObject(condition) /\ \E i \in DOMAIN condition.o : condition.o[i].k \notin registered

\* C12: an unregistered condition operator is a hard error. Whenever a
\* statement's condition block holds an operator key that is not registered,
\* evaluating the document raises an error instead of treating the condition
\* as passed or failed: core evaluate in every mode (validate on or
\* validate:false), and AutorixConditionEvaluator.evaluate on the condition
\* of the statement canAccess was asked about.
C12_UnregisteredOperatorIsError ==
  /\ (/\ call # NoResult
      /\ \E i \in DOMAIN StatementList(call.policy) :
           HasUnregisteredOperator(Prop(StatementList(call.policy)[i], "Condition"),
                                   OPERATORS))
     => decision.kind = "throw"
  /\ access # NoResult =>
       \A i \in DOMAIN subjectPolicies :
         HasUnregisteredOperator(subjectPolicies[i].condition, RegisteredOperators)
           => conditionEvaluate(subjectPolicies[i].condition, context) = "throw"

\* The expected value is a ${...} reference.
IsVariable(value) == IsStr(value) /\ VarPath(Trim(value.s)) # ""

\* The entry reads data the context does not hold: its context path, or the
\* path of the variable it expects.
MissingData(cx, e) ==
  \/ getLeft(cx, e.k) = Undef
  \/ IsVariable(e.v) /\ resolveValue(e.v, cx) = Undef

\* The statement has a condition entry, under one of the four operators,
\* about missing data.
HasMissingData(stmt, cx) ==
  \E op \in OPERATORS :
    LET es == allEntries(Prop(Prop(stmt, "Condition"), op))
    IN \E i \in DOMAIN es : MissingData(cx, es[i])

\* C13: soft fail on missing data. In evaluate, a condition entry whose
\* context path does not exist in ctx, or whose expected value is a ${...}
\* variable whose path does not exist, evaluates to false: the statement
\* does not match and evaluate does not throw, for each of StringEquals,
\* StringLike, NumericEquals and Bool, and also when both paths are missing.
C13_SoftFailOnMissingData ==
  (/\ call # NoResult
   /\ Truthy(call.policy)
   /\ validatePolicyDocument(call.policy) = <<>>) =>
    \A i \in DOMAIN StatementList(call.policy) :
      HasMissingData(StatementList(call.policy)[i], ctx) =>
        /\ decision.kind = "decision"
        /\ \A k \in DOMAIN decision.matchedStatements :
             decision.matchedStatements[k] # statementId(StatementList(call.policy)[i], i - 1)

\* C14: variable round trip. For the Allow statement with the condition
\* StringEquals {'resource.ownerId': '${principal.id}'} that matches on
\* action and resource, evaluate returns allowed:true exactly when
\* ctx.resource.ownerId === ctx.principal.id (strict equality of the two
\* context values) and DEFAULT_DENY otherwise, and never throws.
C14_VariableRoundTrip ==
  (/\ call # NoResult
   /\ call.policy = Document(<<AllowOwner>>)
   /\ resource = "doc/1") =>
    /\ decision.kind = "decision"
    /\ IF Prop(Prop(ctx, "resource"), "ownerId") = Prop(Prop(ctx, "principal"), "id")
       THEN decision.allowed /\ decision.reason = "EXPLICIT_ALLOW"
       ELSE ~decision.allowed /\ decision.reason = "DEFAULT_DENY"

\* ------------------------- properties of resolveValue and wildcardMatch

\* The string is one reference and nothing else: "${", a path without
\* "$", "{" or "}", and "}".
WholeReference(str) ==
  /\ Len(str) >= 4
  /\ Slice(str, 1, 2) = "${"
  /\ Char(str, Len(str)) = "}"
  /\ \A i \in 3..(Len(str) - 1) : Char(str, i) \notin {"$", "{", "}"}

\* C15: the variable resolver. resolveValue replaces a string by a context
\* lookup only when the whole string has the form ${path}; every other
\* value (a string with text or whitespace around the reference, a string
\* with several references, a value that is not a string) is returned
\* unchanged.
C15_WholeStringOnly ==
  (varResult # NoResult /\ ~(IsStr(varValue) /\ WholeReference(varValue.s)))
    => varResult = varValue

\* input[j..] can be obtained from pattern[i..] by replacing each "*" with
\* some sequence of characters, every other character standing for itself.
RECURSIVE Glob(_, _, _, _)
Glob(pattern, i, str, j) ==
  IF i > Len(pattern) THEN j > Len(str)
  ELSE IF Char(pattern, i) = "*"
  THEN \E k \in j..(Len(str) + 1) : Glob(pattern, i + 1, str, k)
  ELSE j <= Len(str) /\ Char(str, j) = Char(pattern, i) /\ Glob(pattern, i + 1, str, j + 1)

\* C16: wildcard matching. wildcardMatch(pattern, input) holds iff input can
\* be obtained from pattern by replacing each '*' with some (possibly empty)
\* character sequence, anchored at both ends; every other character ('?',
\* '.' and the like) is compared literally and case-sensitively, so a
\* pattern without '*' matches the identical string only.
C16_WildcardMatching ==
  wildResult # "none" =>
    wildResult = IF Glob(wildPattern, 1, wildInput, 1) THEN "true" ELSE "false"

\* -------------------------------- properties of the matched statement ids

\* The id the statement at position i (one-based) of the document is to be
\* reported with: its Sid, or stmt# and its zero-based position.
ExpectedId(policy, i) ==
  LET sid == Prop(StatementList(policy)[i], "Sid")
  IN IF Nullish(sid) THEN "stmt#" \o NatToString(i - 1) ELSE sid.s

\* The statement with its Sid set to sid, or without one for undefined.
WithSid(stmt, sid) ==
  IF ~isPlainObject(stmt) THEN stmt
  ELSE ObjOf(<<KV("Sid", sid)>> \o SelectSeq(stmt.o, LAMBDA e : e.k # "Sid"))

WithStatements(policy, statements) == SetProp(policy, "Statement", Arr(statements))

\* The document with the Sid of every statement set to sid.
WithSids(policy, sid) ==
  WithStatements(policy,
    [i \in DOMAIN StatementList(policy) |-> WithSid(StatementList(policy)[i], sid)])

\* evaluate as the call made it, on another document.
EvaluateInstead(policy) ==
  evaluate([action |-> action, resource |-> resource, policy |-> policy, ctx |-> ctx,
            validate |-> call.validate])

\* C17: statement identifiers. The id reported for a matched statement is
\* its Sid when present and otherwise stmt#<i>, i being the zero-based
\* position of the statement in the Statement array of its document (not
\* among the matched statements); and the presence or the value of Sid
\* never changes allowed or reason.
C17_StatementIds ==
  (decision.kind = "decision" /\ Truthy(call.policy)) =>
    /\ \A k \in DOMAIN decision.matchedStatements :
         \E i \in MatchingStatements(call.policy, "Allow")
                    \cup MatchingStatements(call.policy, "Deny") :
           decision.matchedStatements[k] = ExpectedId(call.policy, i)
    /\ \A sid \in {Undef, Str("renamed")} :
         SameOutcome(EvaluateInstead(WithSids(call.policy, sid)), decision)

\* evaluate returned for a document whose first statement does not match
\* and whose second statement, which has no Sid, does.
C17_Witness ==
  /\ decision.kind = "decision"
  /\ Truthy(call.policy)
  /\ Len(StatementList(call.policy)) = 2
  /\ StatementOutcome(StatementList(call.policy)[1], action, resource, ctx) = "skip"
  /\ Prop(StatementList(call.policy)[1], "Sid") # Undef
  /\ Prop(StatementList(call.policy)[2], "Sid") = Undef
  /\ decision.matchedStatements = <<"stmt#1">>

\* The expected ids of the statements at the given positions, in document
\* order.
IdsInOrder(policy, positions) ==
  LET chosen == SelectSeq([i \in DOMAIN StatementList(policy) |-> i],
                          LAMBDA i : i \in positions)
  IN [k \in DOMAIN chosen |-> ExpectedId(policy, chosen[k])]

\* C18: matchedStatements of evaluate. When the decision is EXPLICIT_DENY
\* the list holds exactly the ids of the matching Deny statements in
\* document order and no Allow id; when it is EXPLICIT_ALLOW it holds exactly
\* the ids of the matching Allow statements in document order.
C18_MatchedStatements ==
  (decision.kind = "decision" /\ Truthy(call.policy)) =>
    /\ decision.reason = "EXPLICIT_DENY" =>
         decision.matchedStatements
           = IdsInOrder(call.policy, MatchingStatements(call.policy, "Deny"))
    /\ decision.reason = "EXPLICIT_ALLOW" =>
         decision.matchedStatements
           = IdsInOrder(call.policy, MatchingStatements(call.policy, "Allow"))

\* evaluate returned EXPLICIT_DENY for a document whose matching Deny
\* statement stands before a matching Allow statement.
C18_Witness ==
  /\ decision.kind = "decision"
  /\ decision.reason = "EXPLICIT_DENY"
  /\ Truthy(call.policy)
  /\ \E i \in MatchingStatements(call.policy, "Deny") :
       \E j \in MatchingStatements(call.policy, "Allow") : i < j
  /\ Len(decision.matchedStatements) = 1

\* C19: statement order does not affect the outcome. For every valid policy
\* document and every permutation of its Statement array, evaluate returns
\* the same allowed and reason for the same action, resource and ctx.
C19_StatementOrder ==
  (/\ decision # NoResult
   /\ Truthy(call.policy)
   /\ validatePolicyDocument(call.policy) = <<>>) =>
    \A statements \in Reorderings(StatementList(call.policy)) :
      SameOutcome(EvaluateInstead(WithStatements(call.policy, statements)), decision)

\* evaluate returned for a valid document of two different statements, a
\* matching Allow followed by a matching Deny.
C19_Witness ==
  /\ decision.kind = "decision"
  /\ Truthy(call.policy)
  /\ validatePolicyDocument(call.policy) = <<>>
  /\ Len(StatementList(call.policy)) = 2
  /\ 1 \in MatchingStatements(call.policy, "Allow")
  /\ 2 \in MatchingStatements(call.policy, "Deny")

\* The list without its null and undefined entries.
WithoutNulls(list) == SelectSeq(list, LAMBDA d : ~Nullish(d))

\* C20: null entries are skipped. For every list of policies evaluateAll
\* returns the same Decision (allowed, reason and matchedStatements), or
\* fails the same way, as on the list with all null and undefined entries
\* removed, and never throws because of such an entry.
C20_NullEntriesSkipped ==
  (pc = "done" /\ result # NoResult) =>
    result = evaluateAll([action |-> action, resource |-> resource,
                          policies |-> WithoutNulls(policies), ctx |-> ctx])

\* evaluateAll returned EXPLICIT_ALLOW for a list that starts with a null or
\* undefined entry and has another one after a document.
C20_Witness ==
  /\ pc = "done"
  /\ result.kind = "decision"
  /\ result.reason = "EXPLICIT_ALLOW"
  /\ Len(policies) = 3
  /\ Nullish(policies[1])
  /\ Truthy(policies[2])
  /\ Nullish(policies[3])

\* ------------------------------------------- properties of condition blocks

\* One entry of one operator of core passes for the context.
CoreEntryPasses(op, cx, e) ==
  CASE op = "StringEquals" -> StringEqualsEntry(cx, e) = "true"
    [] op = "StringLike" -> StringLikeEntry(cx, e) = "true"
    [] op = "NumericEquals" -> NumericEqualsEntry(cx, e) = "true"
    [] op = "Bool" -> BoolEntry(cx, e) = "true"
    [] OTHER -> FALSE

\* One entry of one operator of the engine passes for the context.
EngineEntryPasses(op, cx, e) == ApplyEvaluator(op, e.v, resolvePath(cx, e.k))

\* Every entry of every operator of the block passes; so does a missing or
\* empty block. passes(op, entry) is the test of one entry.
EveryEntryPasses(block, passes(_, _)) ==
  ~Truthy(block) \/
    \A i \in DOMAIN block.o :
      \A j \in DOMAIN block.o[i].v.o : passes(block.o[i].k, block.o[i].v.o[j])

\* C21: condition combination. The condition block of a statement passes
\* iff every context-path entry of every operator of the block passes (AND
\* across operators and across the entries of one operator), and a missing
\* or empty block passes: for evaluateConditions of core, seen in the
\* decision of evaluate on a statement that matches every action and
\* resource, and for AutorixConditionEvaluator.evaluate, seen in canAccess.
C21_ConditionCombination ==
  /\ call # NoResult =>
       (decision = Decision(TRUE, "EXPLICIT_ALLOW", <<"stmt#0">>)
          <=> EveryEntryPasses(Prop(StatementList(call.policy)[1], "Condition"),
                               LAMBDA op, e : CoreEntryPasses(op, ctx, e)))
  /\ access # NoResult =>
       /\ access.kind = "decision"
       /\ access.allowed
            <=> EveryEntryPasses(subjectPolicies[1].condition,
                                 LAMBDA op, e : EngineEntryPasses(op, context, e))
       /\ conditionEvaluate(subjectPolicies[1].condition, context)
            = IF access.allowed THEN "true" ELSE "false"

\* evaluate denied by default for a block of two operators in which every
\* entry of the first operator passes and the second operator has a passing
\* entry followed by a failing one.
C21_Witness ==
  /\ call # NoResult
  /\ decision = Decision(FALSE, "DEFAULT_DENY", <<>>)
  /\ LET block == Prop(StatementList(call.policy)[1], "Condition")
     IN /\ Truthy(block)
        /\ Len(block.o) = 2
        /\ Len(block.o[1].v.o) > 0
        /\ \A j \in DOMAIN block.o[1].v.o :
             CoreEntryPasses(block.o[1].k, ctx, block.o[1].v.o[j])
        /\ Len(block.o[2].v.o) = 2
        /\ CoreEntryPasses(block.o[2].k, ctx, block.o[2].v.o[1])
        /\ ~CoreEntryPasses(block.o[2].k, ctx, block.o[2].v.o[2])

\* ------------------------------------------------ properties of assertAllowed

\* sub occurs in str.
Contains(str, sub) ==
  \E i \in 1..(Len(str) - Len(sub) + 1) : Slice(str, i, i + Len(sub) - 1) = sub

\* No statement of the document throws while it is matched.
MatchesWithoutThrowing(policy) ==
  \A i \in DOMAIN StatementList(policy) :
    StatementOutcome(StatementList(policy)[i], action, resource, ctx) # "throw"

\* C22: assertAllowed throws if and only if decision.allowed is false; the
\* error thrown is an AutorixForbiddenError whose decision field is the
\* Decision passed in and whose message contains the reason of the decision;
\* evaluate and evaluateAll never throw for a deny outcome: they throw no
\* AutorixForbiddenError, and a valid document is answered with a Decision.
C22_AssertAllowed ==
  /\ asserted # NoResult =>
       /\ asserted.kind = "throw" <=> ~assertedOn.allowed
       /\ asserted.kind = "throw" =>
            /\ asserted.error = "AutorixForbiddenError"
            /\ asserted.decision = assertedOn
            /\ Contains(asserted.message, assertedOn.reason)
  /\ \A d \in {decision, result} :
       d.kind = "throw" => d.error # "AutorixForbiddenError"
  /\ (/\ call # NoResult
      /\ Truthy(call.policy)
      /\ validatePolicyDocument(call.policy) = <<>>
      /\ MatchesWithoutThrowing(call.policy))
     => decision.kind = "decision"

\* assertAllowed threw for a DEFAULT_DENY that evaluateAll returned, called
\* with a message of the caller.
C22_Witness ==
  /\ asserted.kind = "throw"
  /\ assertedOn = result
  /\ result.kind = "decision"
  /\ result.reason = "DEFAULT_DENY"
  /\ asserted.message = "Denied (DEFAULT_DENY)"

\* ------------------------------------ properties of the evaluator functions

\* An octet of a dotted quad: one to three digits, at most 255.
IsOctet(str) == Len(str) \in 1..3 /\ AllDigits(str) /\ ParseNat(str) <= 255

WellFormedIp(str) ==
  LET parts == Split(str, ".") IN Len(parts) = 4 /\ \A i \in 1..4 : IsOctet(parts[i])

\* The 32 bits of a well-formed address, the first bit first.
RECURSIVE BitsOf(_, _)
BitsOf(n, width) ==
  IF width = 0 THEN <<>> ELSE BitsOf(n \div 2, width - 1) \o <<n % 2>>

AddressBits(str) ==
  LET parts == Split(str, ".")
  IN BitsOf(ParseNat(parts[1]), 8) \o BitsOf(ParseNat(parts[2]), 8)
     \o BitsOf(ParseNat(parts[3]), 8) \o BitsOf(ParseNat(parts[4]), 8)

SameAddress(a, b) == AddressBits(a) = AddressBits(b)

SamePrefix(a, b, bits) == SubSeq(AddressBits(a), 1, bits) = SubSeq(AddressBits(b), 1, bits)

\* An expected value 'ip/bits' with 0 <= bits <= 32; RangeIp and RangeBits
\* are its two parts.
IsCidr(str) ==
  LET parts == Split(str, "/")
  IN Len(parts) = 2 /\ Len(parts[2]) \in 1..2 /\ AllDigits(parts[2])
     /\ ParseNat(parts[2]) <= 32

RangeIp(str) == Split(str, "/")[1]

RangeBits(str) == ParseNat(Split(str, "/")[2])

\* The address an expected value names: itself, or the ip of 'ip/bits'.
ExpectedIp(str) == IF IsCidr(str) THEN RangeIp(str) ELSE str

IpCalled == fnOperator \in IpOperators /\ fnResult # "none"

BothStrings == IsStr(fnExpected) /\ IsStr(fnActual)

\* C23: IpMatch with a bare IPv4 expected value passes iff actual is the
\* same address; with a CIDR 'ip/bits' (0 <= bits <= 32) it passes iff the
\* first bits of actual and ip are equal as 32-bit values; IpMatch,
\* NotIpMatch and IpEquals are false whenever the expected or the actual
\* operand is not a well-formed dotted-quad IPv4 string.
C23_IpOperators ==
  IpCalled =>
    /\ (fnOperator = "IpMatch" /\ BothStrings /\ WellFormedIp(fnExpected.s)
          /\ WellFormedIp(fnActual.s))
         => (fnResult = "true" <=> SameAddress(fnExpected.s, fnActual.s))
    /\ (fnOperator = "IpMatch" /\ BothStrings /\ IsCidr(fnExpected.s)
          /\ WellFormedIp(RangeIp(fnExpected.s)) /\ WellFormedIp(fnActual.s))
         => (fnResult = "true"
               <=> SamePrefix(RangeIp(fnExpected.s), fnActual.s, RangeBits(fnExpected.s)))
    /\ (~BothStrings \/ ~WellFormedIp(ExpectedIp(fnExpected.s)) \/ ~WellFormedIp(fnActual.s))
         => fnResult = "false"

\* A numeric operand: a number, or a string that is a numeral.
IsNumeric(x) == x.t = "number" \/ (x.t = "string" /\ IsNumeral(Trim(x.s)))

NumberOf(x) == IF x.t = "number" THEN x.n ELSE ParseNumber(Trim(x.s)).n

Comparison(operator, actual, expected) ==
  CASE operator = "NumericEquals" -> actual = expected
    [] operator = "NumericNotEquals" -> actual # expected
    [] operator = "NumericLessThan" -> actual < expected
    [] operator = "NumericLessThanEquals" -> actual <= expected
    [] operator = "NumericGreaterThan" -> actual > expected
    [] operator = "NumericGreaterThanEquals" -> actual >= expected

NumericCalled == fnOperator \in NumericOperators /\ fnResult # "none"

\* C24: each numeric operator returns false whenever the expected or the
\* actual operand is not numeric (null, undefined, the empty string, a
\* boolean, an array), and otherwise the named comparison of the two
\* numbers; so does the core's NumericEquals test on the same operands.
C24_NumericFailClosed ==
  NumericCalled =>
    /\ (~IsNumeric(fnExpected) \/ ~IsNumeric(fnActual)) => fnResult = "false"
    /\ (IsNumeric(fnExpected) /\ IsNumeric(fnActual))
         => (fnResult = "true"
               <=> Comparison(fnOperator, NumberOf(fnActual), NumberOf(fnExpected)))
    /\ NumericEqualsTest(toNumber(fnActual), toNumber(fnExpected)) = "true"
         <=> (IsNumeric(fnExpected) /\ IsNumeric(fnActual)
                /\ NumberOf(fnActual) = NumberOf(fnExpected))

\* ------------------------------------------------ properties of deletePolicy

\* Every getPolicies input of the scopes and principals of the model.
DeleteInputs ==
  [kind : {"input"}, scope : DeleteScopes, principal : DeletePrincipals,
   roleIds : {Undef, Arr(<<"r1">>)}, groupIds : {Undef}]

\* What getPolicies of the provider would return for an input now.
GetPoliciesNow(input) ==
  IF provider = "redis" THEN redisGetPolicies(redisStrings, redisSets, input)
  ELSE mongoGetPolicies(mongoPolicies, mongoAttachments, input)

\* An attachment of the deleted policy is stored: in the scope deletePolicy
\* was called for (Redis), in any scope (MongoDB, whose ids have no scope).
AttachmentRemains ==
  IF provider = "redis"
  THEN \E key \in ScanMatch(redisSets, getAttachmentPattern(delTarget.scope)) :
         delTarget.id \in redisSets[key]
  ELSE \E a \in mongoAttachments : a.policyId = delTarget.id

\* C25: once deletePolicy for a policy has completed, no attachment made
\* before that references it, and getPolicies returns its id for no
\* principal, also after a policy with the same id is added again; for
\* every interleaving with attachPolicy, detachPolicy and addPolicy calls.
C25_DeleteCascades ==
  delPc = "done" =>
    /\ ~AttachmentRemains
    /\ \A input \in DeleteInputs :
         (provider = "redis" => input.scope = delTarget.scope)
           => \A source \in GetPoliciesNow(input) : source.id # delTarget.id

\* ------------------------------------- properties of the Express adapter

\* The calls authorizeMiddleware made, once it has run: what follows its
\* entry in adEvents, up to and including its calls of next.
AuthorizeRan == \E i \in DOMAIN adEvents : adEvents[i].call = "authorize"

AuthorizeCalls ==
  LET entry == CHOOSE i \in DOMAIN adEvents : adEvents[i].call = "authorize"
  IN SelectSeq(SubSeq(adEvents, entry + 1, Len(adEvents)),
               LAMBDA e : e.call \notin {"handler", "errorHandler"})

CallsOf(calls, name) == SelectSeq(calls, LAMBDA e : e.call = name)

HandlerReached == Len(CallsOf(adEvents, "handler")) > 0

\* The first two checks of the middleware, the order of its calls, and
\* next called once: the part of C26 that does not depend on the callbacks.
AuthorizeOrder ==
  LET calls == AuthorizeCalls
      nexts == CallsOf(calls, "next")
  IN /\ Len(nexts) = 1
     /\ calls[Len(calls)].call = "next"
     /\ ~adAutorix => calls = <<Call("next", "AutorixMissingMiddlewareError")>>
     /\ (adAutorix /\ adReq.requireAuth /\ adReq.principal = "null")
          => calls = <<Call("next", "AutorixUnauthenticatedError")>>
     /\ nexts[1].arg # "" => ~HandlerReached
     /\ adPc = "responded" =>
          adResult.status = IF nexts[1].arg = "" THEN 200 ELSE statusCode(nexts[1].arg)

\* The request passes the first two checks of the middleware.
PastAuthentication == adAutorix /\ ~(adReq.requireAuth /\ adReq.principal = "null")

\* A callback of the route or of the application throws before the
\* enforcer has answered, or the enforcer or onDecision does.
CallbackThrows ==
  \/ adReq.context = "function throws"
  \/ adReq.resource \in {"idFrom throws", "loader throws"}
  \/ adReq.enforcer = "throws"
  \/ adReq.onDecision = "throws"

\* The third case of C26: the resource is resolved, the enforcer called
\* once after it, next() without error only when it allowed, otherwise next
\* with AutorixForbiddenError.
EnforcedOnce ==
  LET calls == AuthorizeCalls
      nexts == CallsOf(calls, "next")
  IN /\ Len(CallsOf(calls, "enforcer.can")) = 1
     /\ adReq.resource = "loader" => Len(CallsOf(calls, "loader")) = 1
     /\ \A i, j \in DOMAIN calls :
          (calls[i].call = "loader" /\ calls[j].call = "enforcer.can") => i < j
     /\ nexts[1].arg = "" => adReq.enforcer = "allows"
     /\ nexts[1].arg # "" => nexts[1].arg = "AutorixForbiddenError"

\* C26 as stated: for every request the authorize middleware passes
\* AutorixMissingMiddlewareError when req.autorix is absent, else
\* AutorixUnauthenticatedError when requireAuth is set and the principal is
\* null, before the loader or the enforcer is called; else it resolves the
\* resource, calls the enforcer exactly once and calls next() only when the
\* enforcer allowed, otherwise next with AutorixForbiddenError; the handler
\* is never reached after a denial and next is called exactly once.
C26_AuthorizeOrder ==
  AuthorizeRan => (AuthorizeOrder /\ (PastAuthentication => EnforcedOnce))

\* C26, amended: the third case holds when no callback throws; when one
\* does, the middleware calls nothing further, hands the thrown error to
\* next, and the handler is not reached.
C26_AuthorizeOrderUnlessThrown ==
  AuthorizeRan =>
    /\ AuthorizeOrder
    /\ (PastAuthentication /\ ~CallbackThrows) => EnforcedOnce
    /\ (PastAuthentication /\ CallbackThrows) =>
         /\ CallsOf(AuthorizeCalls, "next") = <<Call("next", "Error")>>
         /\ Len(CallsOf(AuthorizeCalls, "enforcer.can")) <= 1
         /\ ~HandlerReached

\* A request that passed both checks was denied by the enforcer after its
\* loader ran, and the error handler has answered.
C26_Witness ==
  /\ adPc = "responded"
  /\ PastAuthentication
  /\ adReq.requireAuth
  /\ adReq.resource = "loader"
  /\ adReq.enforcer = "denies"
  /\ adResult.status = 403

\* --------------------------------------- properties of the NestJS guard

GuardRan == adReq.kind = "nestjs" /\ adPc # "request"

NoActions == ~Truthy(adReq.actions) \/ Len(adReq.actions.a) = 0

EmptyPrincipal == Coalesce(adReq.userId, Str("")) = Str("")

\* The policies of the provider that are stored under the scope of the
\* request and attached, in that scope, to its user or one of its roles.
ResolvedForScope ==
  {id \in DOMAIN memPolicies :
     /\ ScopeEquals(memPolicies[id].scope, Scope("TENANT", adReq.tenantId))
     /\ \E i \in DOMAIN memAttachments :
          /\ memAttachments[i].policyId = id
          /\ ScopeEquals(memAttachments[i].scope, Scope("TENANT", adReq.tenantId))
          /\ \/ /\ memAttachments[i].principalType = "USER"
                /\ Str(memAttachments[i].principalId) = adReq.userId
             \/ /\ memAttachments[i].principalType = "ROLE"
                /\ memAttachments[i].principalId \in Range(adReq.roles)}

\* What evaluateAll answers for one declared action over those policies.
DecisionFor(declared) ==
  evaluateAll([action |-> declared, resource |-> GuardResourceString(adReq),
               policies |-> [i \in 1..Cardinality(ResolvedForScope) |->
                               memPolicies["p1"].document],
               ctx |-> defaultContextResolver(adReq, defaultScopeResolver(adReq),
                                              defaultPrincipalResolver(adReq))])

Allows(declared) == DecisionFor(declared).kind = "decision" /\ DecisionFor(declared).allowed

Denies(declared) == DecisionFor(declared).kind = "decision" /\ ~DecisionFor(declared).allowed

QueriedProvider == Len(CallsOf(adEvents, "getPolicies")) > 0

AllowQuestion == Statement(Str("AllowQuestion"), Str("Allow"), Str("?"), Str("*"), Undef)

\* A statement that validates and denies what AllowQuestion would allow.
DenyQuestion == Statement(Str("DenyQuestion"), Str("Deny"), Str("?"), Str("*"), Undef)

\* The entries of the lists: null, the document without statements and
\* documents that pass validatePolicyDocument.
ListDocuments ==
  {NullV, Document(<<>>), Document(<<AllowAll>>), Document(<<DenySensitive>>),
   Document(<<AllowRead, DenyDoc>>), Document(<<AllowQuestion>>)}

ListInit ==
  /\ action \in Actions
  /\ resource \in Resources
  /\ policies \in SeqsUpTo(ListDocuments, MaxPolicies)
  /\ ctx \in Contexts
  /\ subjectPolicies = <<>>
  /\ context = Obj(<<>>)
  /\ MemoryEmpty
  /\ RedisEmpty
  /\ UtilsIdle
  /\ access = NoResult
  /\ call = NoResult
  /\ decision = NoResult
  /\ pc = "idle"
  /\ idx = 1
  /\ acc = AllStart
  /\ evaluated = <<>>
  /\ result = NoResult

ListNext == CallEvaluate \/ EvaluateAllEnter \/ EvaluateAllIterate \/ EvaluateAllReturn

SpecList == ListInit /\ [][ListNext]_vars

\* ------------------------- properties of evaluateAll against evaluate

\* Every entry of the list is null, undefined or a document that
\* validatePolicyDocument accepts.
AllValid(list) ==
  \A i \in DOMAIN list : Nullish(list[i]) \/ validatePolicyDocument(list[i]) = <<>>

\* The one document whose Statement array is the concatenation of the
\* statements of the non-null documents of the list, in list order.
Concatenated(list) ==
  Document(Flatten([i \in DOMAIN WithoutNulls(list) |->
                      StatementList(WithoutNulls(list)[i])]))

DenyAdditions == {DenyDoc, DenySensitive, DenyQuestion}

AllowAdditions == {AllowAll, AllowRead, AllowOwner, AllowQuestion}

\* The sequence with x put after its first k elements.
InsertAt(list, k, x) == SubSeq(list, 1, k) \o <<x>> \o SubSeq(list, k + 1, Len(list))

\* The document with one more statement, at every position.
DocumentsWithStatement(policy, statements) ==
  {WithStatements(policy, InsertAt(StatementList(policy), j, s)) :
     j \in 0..Len(StatementList(policy)), s \in statements}

\* The list with one more document of one statement, at every position.
ListsWithDocument(list, statements) ==
  {InsertAt(list, k, Document(<<s>>)) : k \in 0..Len(list), s \in statements}

\* The list with one more statement in one of its documents.
ListsWithStatement(list, statements) ==
  UNION {{[list EXCEPT ![i] = d] : d \in DocumentsWithStatement(list[i], statements)} :
           i \in {n \in DOMAIN list : ~Nullish(list[n])}}

LargerLists(list, statements) ==
  ListsWithDocument(list, statements) \cup ListsWithStatement(list, statements)

\* evaluateAll for the same action, resource and ctx, on another list.
EvaluateAllInstead(list) ==
  evaluateAll([action |-> action, resource |-> resource, policies |-> list, ctx |-> ctx])

IsAllowed(d) == d.kind = "decision" /\ d.allowed

IsDenied(d) == d.kind = "decision" /\ ~d.allowed

\* The three parts of the claim for one decision and the outcomes of the
\* call on the inputs with one more Deny and with one more Allow.
Monotone(before, withDeny, withAllow) ==
  /\ IsDenied(before) => \A d \in withDeny : ~IsAllowed(d)
  /\ IsAllowed(before) => \A d \in withAllow : ~IsDenied(d)
  /\ (before.kind = "decision" /\ before.reason = "EXPLICIT_DENY") =>
       \A d \in withAllow : ~IsAllowed(d)

\* C29: monotonicity of effects. For evaluate and evaluateAll over valid
\* documents and a fixed action, resource and ctx, adding a Deny statement
\* (or a document holding only a Deny statement) never turns a decision with
\* allowed false into one with allowed true, and adding an Allow statement
\* (or a document holding only an Allow statement) never turns a decision
\* with allowed true into one with allowed false, nor an EXPLICIT_DENY into
\* an allow.
C29_Monotone ==
  /\ (pc = "done" /\ result.kind = "decision" /\ AllValid(policies)) =>
       Monotone(result,
                {EvaluateAllInstead(l) : l \in LargerLists(policies, DenyAdditions)},
                {EvaluateAllInstead(l) : l \in LargerLists(policies, AllowAdditions)})
  /\ (/\ decision.kind = "decision"
      /\ Truthy(call.policy)
      /\ validatePolicyDocument(call.policy) = <<>>) =>
       Monotone(decision,
                {EvaluateInstead(d) : d \in DocumentsWithStatement(call.policy, DenyAdditions)},
                {EvaluateInstead(d) : d \in DocumentsWithStatement(call.policy, AllowAdditions)})

\* evaluateAll returned EXPLICIT_DENY for a list of two valid documents, a
\* matching Allow before a matching Deny, to which an Allow document can be
\* added in three places.
C29_Witness ==
  /\ pc = "done"
  /\ result.kind = "decision"
  /\ result.reason = "EXPLICIT_DENY"
  /\ AllValid(policies)
  /\ Len(policies) = 2
  /\ policies[1] = Document(<<AllowAll>>)
  /\ Len(evaluated) = 2
  /\ \E l \in LargerLists(policies, AllowAdditions) :
       IsDenied(EvaluateAllInstead(l)) /\ Len(l) = 3

\* ------------------------- the in-memory provider and its final contents

IdsOf(sources) == {sources[i].id : i \in DOMAIN sources}

\* The arrays of attachments that hold the same set of attachments as the
\* provider's: every order of them, with or without repetitions.
AttachmentArrays ==
  {s \in SeqsUpTo(Range(memAttachments), MaxAttachments + 1) :
     Range(s) = Range(memAttachments)}

\* The provider's attachments without those whose policy is not stored.
StoredAttachments == SelectSeq(memAttachments, LAMBDA a : a.policyId \in DOMAIN memPolicies)

\* After a getPolicies: the ids returned are those any other array of the
\* same set of attachments gives with the same map of policies, and are
\* those returned without the attachments of policies that are not stored.
FinalContentsOnly ==
  memInput # NoResult =>
    /\ \A s \in AttachmentArrays :
         IdsOf(memoryGetPolicies(memPolicies, s, memInput)) = ResultIds
    /\ memResult = memoryGetPolicies(memPolicies, StoredAttachments, memInput)
    /\ \A k \in DOMAIN memAttachments :
         memAttachments[k].policyId \notin DOMAIN memPolicies =>
           memAttachments[k].policyId \notin ResultIds

\* A step of addPolicy on an id that is stored already: the map holds the
\* new record for the id, every other record is as before, and when the
\* scope differs a getPolicies for the previous scope does not return the
\* id any more.
ReplacesRecord ==
  \A id \in DOMAIN memPolicies :
    memPolicies'[id] # memPolicies[id] =>
      /\ DOMAIN memPolicies' = DOMAIN memPolicies
      /\ \A other \in DOMAIN memPolicies \ {id} : memPolicies'[other] = memPolicies[other]
      /\ memPolicies'[id].id = id
      /\ ~sameScope(memPolicies'[id].scope, memPolicies[id].scope) =>
           \A input \in GetPoliciesInputs :
             input.scope = memPolicies[id].scope =>
               id \notin IdsOf(memoryGetPolicies(memPolicies', memAttachments', input))

\* C30: the resolution of MemoryPolicyProvider depends only on the final
\* store contents. Any two sequences of addPolicy and attachPolicy calls
\* that leave the same map of policies by id and the same set of attachments
\* make getPolicies return the same set of policy ids, whatever the order of
\* the calls; an attachment whose policy id has no stored policy is ignored
\* without error; and addPolicy with an existing id replaces the stored
\* record, its scope included, after which getPolicies for the previous
\* scope no longer returns that id.
C30_FinalContentsOnly == [](FinalContentsOnly) /\ [][ReplacesRecord]_vars

\* getPolicies was asked by u1 for the scope under which p1 is attached to
\* u1 while p1 is stored under another scope, and p2, attached to u1 as well,
\* is not stored: it returned nothing.
C30_Witness ==
  /\ memInput # NoResult
  /\ memInput.principal = PrincipalRef("USER", "u1")
  /\ DOMAIN memPolicies = {"p1"}
  /\ ~sameScope(memPolicies["p1"].scope, memInput.scope)
  /\ Len(memAttachments) = 2
  /\ \E k, l \in DOMAIN memAttachments :
       /\ memAttachments[k].policyId = "p1"
       /\ memAttachments[l].policyId = "p2"
       /\ sameScope(memAttachments[k].scope, memInput.scope)
       /\ sameScope(memAttachments[l].scope, memInput.scope)
       /\ BindsToPrincipal(memAttachments[k])
       /\ BindsToPrincipal(memAttachments[l])
  /\ memResult = <<>>

====
